---- MODULE Spec2Model ----
(***************************************************************************)
(* Model of the control_playground engine and interpreter.                 *)
(*                                                                         *)
(*   engine/src/transfer_function.rs   DiscreteTransferFunction            *)
(*   engine/src/state_space.rs         DiscreteStateSpaceModel             *)
(*   engine/src/dynamic_system.rs      CompoundSystem, Simulation          *)
(*   interpreter/src/execution.rs      execute, eval                       *)
(*   app/src/storage.rs                upload_file, get_file               *)
(*                                                                         *)
(* f64 values are modelled as exact rationals n/d in lowest terms,         *)
(* extended with +inf (1/0), -inf (-1/0) and NaN (0/0).  Rounding and the  *)
(* sign of zero are outside the model.                                     *)
(*                                                                         *)
(* A Rust Result/Option is a record [r |-> "Ok"|"Err"|"None", v |-> ...];  *)
(* a panic (abort of the whole call stack) is [r |-> "Panic", v |-> msg].  *)
(***************************************************************************)
EXTENDS Integers, Sequences, FiniteSets, TLC

VARIABLES
    program,    \* execute: the statements of the Program being executed
    pc,         \* execute: index of the next statement of the for loop
    values,     \* execute: HashMap<Rc<str>, Value>, the environment
    output,     \* execute: Vec<Output> built so far
    status,     \* execute: "running" | "returned" | "aborted" (panicked)
    debug_assertions,   \* whether the build checks debug assertions
    call,       \* engine call under test: [fn |-> ..., args |-> ...]
    result,     \* its return value, Pending before the call is made
    file_input, \* app: the file chosen in the <input type="file"> element
    uploads,    \* app: the upload_file tasks spawned so far
    local_storage   \* app: window.localStorage, key -> item

\* the state of the browser page around the interpreter
browser == <<file_input, uploads, local_storage>>

vars == <<program, pc, values, output, status, debug_assertions, call, result,
          browser>>

\* the page right after loading: no file chosen, no upload, nothing stored
PageLoaded ==
    /\ file_input = <<>>
    /\ uploads = <<>>
    /\ local_storage = <<>>

-----------------------------------------------------------------------------
(* Result / Option / panic                                                 *)

Ok(v) == [r |-> "Ok", v |-> v]
Err(e) == [r |-> "Err", v |-> e]
Panic(msg) == [r |-> "Panic", v |-> msg]
Some(v) == [r |-> "Ok", v |-> v]
None == [r |-> "None", v |-> <<>>]

IsOk(x) == x.r = "Ok"
IsErr(x) == x.r = "Err"
IsPanic(x) == x.r = "Panic"
IsNone(x) == x.r = "None"

\* a value of the source bound once and used by the code that follows it
Bind(v, K(_)) == K(v)

\* the `?` operator and unwinding: anything but an Ok value ends the
\* computation and is its result
Try(r, K(_)) == IF IsOk(r) THEN K(r.v) ELSE r

-----------------------------------------------------------------------------
(* f64 as extended rationals                                               *)

Abs(n) == IF n < 0 THEN 0 - n ELSE n
Sign(n) == IF n < 0 THEN 0 - 1 ELSE IF n > 0 THEN 1 ELSE 0

RECURSIVE GCD(_, _)
GCD(a, b) == IF b = 0 THEN a ELSE GCD(b, a % b)

(* The 53-bit significand of an f64 does not fit the integers of the model *)
(* checker, so a magnitude is a sequence of limbs, least significant       *)
(* first, without a zero top limb; <<>> is 0.                              *)
Base == 10000

RECURSIVE NatFromInt(_)
NatFromInt(k) == IF k = 0 THEN <<>> ELSE <<k % Base>> \o NatFromInt(k \div Base)

\* only for magnitudes of at most two limbs
NatToInt(a) ==
    IF a = <<>> THEN 0 ELSE IF Len(a) = 1 THEN a[1] ELSE a[1] + Base * a[2]

RECURSIVE NatTrim(_)
NatTrim(a) ==
    IF a # <<>> /\ a[Len(a)] = 0 THEN NatTrim(SubSeq(a, 1, Len(a) - 1)) ELSE a

\* -1, 0, 1 as a is less than, equal to, greater than b
RECURSIVE NatCmpFrom(_, _, _)
NatCmpFrom(a, b, i) ==
    IF i = 0 THEN 0
    ELSE IF a[i] < b[i] THEN 0 - 1
    ELSE IF a[i] > b[i] THEN 1
    ELSE NatCmpFrom(a, b, i - 1)

NatCmp(a, b) ==
    IF Len(a) < Len(b) THEN 0 - 1
    ELSE IF Len(a) > Len(b) THEN 1
    ELSE NatCmpFrom(a, b, Len(a))

RECURSIVE NatAddCarry(_, _, _)
NatAddCarry(a, b, carry) ==
    IF a = <<>> /\ b = <<>> THEN (IF carry = 0 THEN <<>> ELSE <<carry>>)
    ELSE Bind((IF a = <<>> THEN 0 ELSE a[1]) + (IF b = <<>> THEN 0 ELSE b[1]) + carry,
              LAMBDA s :
         <<s % Base>> \o NatAddCarry(IF a = <<>> THEN a ELSE Tail(a),
                                     IF b = <<>> THEN b ELSE Tail(b),
                                     s \div Base))

NatAdd(a, b) == NatAddCarry(a, b, 0)

\* a - b for a >= b, before trimming
RECURSIVE NatSubBorrow(_, _, _)
NatSubBorrow(a, b, borrow) ==
    IF a = <<>> THEN <<>>
    ELSE Bind(a[1] - (IF b = <<>> THEN 0 ELSE b[1]) - borrow, LAMBDA s :
         <<IF s < 0 THEN s + Base ELSE s>>
         \o NatSubBorrow(Tail(a), IF b = <<>> THEN b ELSE Tail(b),
                         IF s < 0 THEN 1 ELSE 0))

NatSub(a, b) == NatTrim(NatSubBorrow(a, b, 0))

\* a * k for one limb k
RECURSIVE NatMulLimb(_, _, _)
NatMulLimb(a, k, carry) ==
    IF a = <<>> THEN (IF carry = 0 THEN <<>> ELSE <<carry>>)
    ELSE Bind(a[1] * k + carry, LAMBDA p :
         <<p % Base>> \o NatMulLimb(Tail(a), k, p \div Base))

RECURSIVE NatMul(_, _)
NatMul(a, b) ==
    IF a = <<>> \/ b = <<>> THEN <<>>
    ELSE IF Len(a) = 1 /\ Len(b) = 1 THEN NatFromInt(a[1] * b[1])
    ELSE Bind(NatMul(a, Tail(b)), LAMBDA high :
         NatAdd(NatMulLimb(a, b[1], 0),
                IF high = <<>> THEN high ELSE <<0>> \o high))

\* the largest limb q in lo..hi with b * q <= rem, by bisection
RECURSIVE QuotientLimb(_, _, _, _)
QuotientLimb(rem, b, lo, hi) ==
    IF lo = hi THEN lo
    ELSE Bind((lo + hi + 1) \div 2, LAMBDA mid :
         IF NatCmp(NatMulLimb(b, mid, 0), rem) <= 0
         THEN QuotientLimb(rem, b, mid, hi)
         ELSE QuotientLimb(rem, b, lo, mid - 1))

\* quotient and remainder of a by b # 0, by long division from the top limb
RECURSIVE NatDivMod(_, _)
NatDivMod(a, b) ==
    IF Len(a) <= 2 /\ Len(b) <= 2
    THEN [q |-> NatFromInt(NatToInt(a) \div NatToInt(b)),
          r |-> NatFromInt(NatToInt(a) % NatToInt(b))]
    ELSE IF NatCmp(a, b) < 0 THEN [q |-> <<>>, r |-> a]
    ELSE Bind(NatDivMod(Tail(a), b), LAMBDA h :
         Bind(NatTrim(<<a[1]>> \o h.r), LAMBDA rem :
         Bind(QuotientLimb(rem, b, 0, Base - 1), LAMBDA ql :
         [q |-> NatTrim(<<ql>> \o h.q),
          r |-> IF ql = 0 THEN rem ELSE NatSub(rem, NatMulLimb(b, ql, 0))])))

RECURSIVE NatGCD(_, _)
NatGCD(a, b) ==
    IF Len(a) <= 2 /\ Len(b) <= 2 THEN NatFromInt(GCD(NatToInt(a), NatToInt(b)))
    ELSE IF b = <<>> THEN a
    ELSE NatGCD(b, NatDivMod(a, b).r)

\* s * n / d brought to lowest terms; d = 0 encodes inf (s # 0) and NaN
Norm(s, n, d) ==
    IF d = <<>>
    THEN (IF n = <<>> THEN [s |-> 0, n |-> n, d |-> d]
          ELSE [s |-> s, n |-> <<1>>, d |-> d])
    ELSE IF n = <<>> THEN [s |-> 0, n |-> n, d |-> <<1>>]
    ELSE IF Len(n) = 1 /\ Len(d) = 1
    THEN Bind(GCD(n[1], d[1]), LAMBDA g :
         [s |-> s, n |-> <<n[1] \div g>>, d |-> <<d[1] \div g>>])
    ELSE Bind(NatGCD(n, d), LAMBDA g :
         [s |-> s, n |-> NatDivMod(n, g).q, d |-> NatDivMod(d, g).q])

F(k) == [s |-> Sign(k), n |-> NatFromInt(Abs(k)), d |-> <<1>>]
Q(k, l) ==
    Norm(IF l = 0 THEN Sign(k) ELSE Sign(k) * Sign(l),
         NatFromInt(Abs(k)), NatFromInt(Abs(l)))
NaN == [s |-> 0, n |-> <<>>, d |-> <<>>]
Inf == [s |-> 1, n |-> <<1>>, d |-> <<>>]

IsNaN(x) == x.d = <<>> /\ x.s = 0
IsInf(x) == x.d = <<>> /\ x.s # 0

FNeg(x) == [x EXCEPT !.s = 0 - x.s]

FAdd(x, y) ==
    IF IsNaN(x) \/ IsNaN(y) THEN NaN
    ELSE IF IsInf(x) THEN (IF IsInf(y) /\ y.s # x.s THEN NaN ELSE x)
    ELSE IF IsInf(y) THEN y
    ELSE IF x.s = 0 THEN y
    ELSE IF y.s = 0 THEN x
    ELSE Bind(NatMul(x.n, y.d), LAMBDA xn :
         Bind(NatMul(y.n, x.d), LAMBDA yn :
         Bind(NatMul(x.d, y.d), LAMBDA d :
         IF x.s = y.s THEN Norm(x.s, NatAdd(xn, yn), d)
         ELSE Bind(NatCmp(xn, yn), LAMBDA c :
              IF c = 0 THEN F(0)
              ELSE IF c > 0 THEN Norm(x.s, NatSub(xn, yn), d)
              ELSE Norm(y.s, NatSub(yn, xn), d)))))

FSub(x, y) == FAdd(x, FNeg(y))

FMul(x, y) == Norm(x.s * y.s, NatMul(x.n, y.n), NatMul(x.d, y.d))

\* 1/x; 1/0 is +inf (the sign of a zero is outside the model)
FRecip(x) == [s |-> IF x.s = 0 THEN 1 ELSE x.s, n |-> x.d, d |-> x.n]

FDiv(x, y) ==
    Bind(FRecip(y), LAMBDA q : Norm(x.s * q.s, NatMul(x.n, q.n), NatMul(x.d, q.d)))

\* IEEE ==, false when either side is NaN
FEq(x, y) == ~IsNaN(x) /\ ~IsNaN(y) /\ x = y
FNe(x, y) == ~FEq(x, y)
FLt(x, y) ==
    /\ ~IsNaN(x) /\ ~IsNaN(y) /\ x # y
    /\ IF x.d = <<>> THEN x.s < 0
       ELSE IF y.d = <<>> THEN y.s > 0
       ELSE IF x.s # y.s THEN x.s < y.s
       ELSE IF x.s >= 0 THEN NatCmp(NatMul(x.n, y.d), NatMul(y.n, x.d)) < 0
       ELSE NatCmp(NatMul(x.n, y.d), NatMul(y.n, x.d)) > 0
FAbs(x) == [x EXCEPT !.s = Abs(x.s)]

-----------------------------------------------------------------------------
(* Dense vectors (sequences of f64) and matrices                           *)

RECURSIVE Repeat(_, _)
Repeat(x, n) == IF n <= 0 THEN <<>> ELSE <<x>> \o Repeat(x, n - 1)

\* a matrix keeps its shape explicitly: a 0 x 2 and a 0 x 0 matrix differ
Mat(rows, cols, e) == [rows |-> rows, cols |-> cols, e |-> e]
Zeros(rows, cols) == Mat(rows, cols, Repeat(Repeat(F(0), cols), rows))

RECURSIVE Dot(_, _)
Dot(a, b) ==
    IF a = <<>> THEN F(0)
    ELSE FAdd(FMul(a[1], b[1]), Dot(Tail(a), Tail(b)))

\* ArrayBase::dot, matrix times vector; panics on incompatible shapes
MatVec(m, v) ==
    IF m.cols # Len(v) THEN Panic("ndarray: inputs are not compatible for matrix multiplication")
    ELSE Ok([i \in 1..m.rows |-> Dot(m.e[i], v)])

\* &a + &b on 1-D arrays of the same length (a length-1 side is broadcast)
VecAdd(a, b) ==
    IF Len(a) = Len(b) THEN Ok([i \in 1..Len(a) |-> FAdd(a[i], b[i])])
    ELSE IF Len(b) = 1 THEN Ok([i \in 1..Len(a) |-> FAdd(a[i], b[1])])
    ELSE IF Len(a) = 1 THEN Ok([i \in 1..Len(b) |-> FAdd(a[1], b[i])])
    ELSE Panic("ndarray: could not broadcast array")

-----------------------------------------------------------------------------
(* engine/src/transfer_function.rs                                         *)

\* DVector::insert_rows(i, n, val): n copies of val inserted at index i
insert_rows(v, i, n, val) ==
    SubSeq(v, 1, i) \o Repeat(val, n) \o SubSeq(v, i + 1, Len(v))

\* variant: the coefficients are stored as given, without padding
DiscreteTransferFunction_new_unpadded(num, den) ==
    IF num = <<>> \/ den = <<>> THEN None
    ELSE Some([num |-> num, den |-> den])

\* variant: a denominator whose first coefficient is 0 is refused
DiscreteTransferFunction_new_validating(num, den) ==
    IF num = <<>> \/ den = <<>> THEN None
    ELSE IF FEq(den[1], F(0)) THEN None
    ELSE Some([num |-> Repeat(F(0), Len(den) - Len(num)) \o num,
               den |-> Repeat(F(0), Len(num) - Len(den)) \o den])

DiscreteTransferFunction_new(num, den) ==
    IF num = <<>> \/ den = <<>> THEN None
    ELSE LET numlen == Len(num)
             denlen == Len(den)
             num1 == IF numlen < denlen
                     THEN insert_rows(num, 0, denlen - numlen, F(0))
                     ELSE num
             den1 == IF denlen < numlen
                     THEN insert_rows(den, 0, numlen - denlen, F(0))
                     ELSE den
         IN  Some([num |-> num1, den |-> den1])

(* DiscreteStateSpaceModel::new: the four blocks with the shape check      *)
DiscreteStateSpaceModel_new(a, b, c, d) ==
    LET n == a.rows
        m == b.cols
        r == c.rows
    IN  IF a.cols # n \/ b.rows # n \/ c.cols # n \/ d.cols # m \/ d.rows # r
        THEN Panic("explicit panic")
        ELSE Ok([a |-> a, b |-> b, c |-> c, d |-> d])

\* variant: c is num[j + 1] / d0, without the term of the direct path
convert_to_state_space_uncorrected(tf) ==
    LET d0 == tf.den[1]
        order == Len(tf.den) - 1
    IN  IF FEq(d0, F(0)) THEN None
        ELSE Some([a |-> Mat(order, order,
                             [i \in 1..order |->
                                 [j \in 1..order |->
                                     IF i = 1 THEN FDiv(FNeg(tf.den[j + 1]), d0)
                                     ELSE IF j = i - 1 THEN F(1) ELSE F(0)]]),
                   b |-> Mat(order, 1,
                             [i \in 1..order |-> IF i = 1 THEN <<F(1)>> ELSE <<F(0)>>]),
                   c |-> Mat(1, order, <<[j \in 1..order |-> FDiv(tf.num[j + 1], d0)]>>),
                   d |-> Mat(1, 1, <<<<FDiv(tf.num[1], d0)>>>>)])

\* variant: no test of d0, the divisions by zero yield inf and NaN entries
convert_to_state_space_unchecked(tf) ==
    LET d0 == tf.den[1]
        order == Len(tf.den) - 1
        n0 == tf.num[1]
    IN  Some([a |-> Mat(order, order,
                        [i \in 1..order |->
                            [j \in 1..order |->
                                IF i = 1 THEN FDiv(FNeg(tf.den[j + 1]), d0)
                                ELSE IF j = i - 1 THEN F(1) ELSE F(0)]]),
              b |-> Mat(order, 1, [i \in 1..order |-> IF i = 1 THEN <<F(1)>> ELSE <<F(0)>>]),
              c |-> Mat(1, order,
                        <<[j \in 1..order |->
                             FAdd(FDiv(FMul(FDiv(FNeg(tf.den[j + 1]), d0), n0), d0),
                                  FDiv(tf.num[j + 1], d0))]>>),
              d |-> Mat(1, 1, <<<<FDiv(n0, d0)>>>>)])

convert_to_state_space(tf) ==
    LET d0 == tf.den[1]
        order == Len(tf.den) - 1
        n0 == tf.num[1]
        \* c as first built: -di / d0 * n0 / d0 over den.iter().skip(1)
        c0 == [j \in 1..order |->
                  FDiv(FMul(FDiv(FNeg(tf.den[j + 1]), d0), n0), d0)]
        arow0 == [j \in 1..order |-> FDiv(FNeg(tf.den[j + 1]), d0)]
        a == [i \in 1..order |->
                 IF i = 1 THEN arow0
                 ELSE [j \in 1..order |-> IF j = i - 1 THEN F(1) ELSE F(0)]]
        b == [i \in 1..order |-> IF i = 1 THEN <<F(1)>> ELSE <<F(0)>>]
        c == [j \in 1..order |-> FAdd(c0[j], FDiv(tf.num[j + 1], d0))]
    IN  IF FEq(d0, F(0)) THEN None
        ELSE Some([a |-> Mat(order, order, a),
                   b |-> Mat(order, 1, b),
                   c |-> Mat(1, order, <<c>>),
                   d |-> Mat(1, 1, <<<<FDiv(n0, d0)>>>>)])

-----------------------------------------------------------------------------
(* engine/src/state_space.rs                                               *)

state_size(ss) == ss.a.rows
input_size(ss) == ss.b.cols
output_size(ss) == ss.c.rows

has_feedthrough(ss) ==
    \E i \in 1..ss.d.rows : \E j \in 1..ss.d.cols : FNe(ss.d.e[i][j], F(0))

\* new_state = b.dot(input) + a.dot(state); state.assign(&new_state)
update_state(ss, input, state) ==
    Try(MatVec(ss.b, input), LAMBDA bu :
    Try(MatVec(ss.a, state), LAMBDA ax :
    VecAdd(bu, ax)))

\* variant: the input does not reach the output
calculate_output_without_input(ss, input, state) == MatVec(ss.c, state)

\* output.assign(c.dot(state) + d.dot(input))
calculate_output_with_feedthrough(ss, input, state) ==
    Try(MatVec(ss.c, state), LAMBDA cx :
    Try(MatVec(ss.d, input), LAMBDA du :
    VecAdd(cx, du)))

\* output.assign(c.dot(state)): the feedthrough-free variant
calculate_output(ss, state) == MatVec(ss.c, state)

-----------------------------------------------------------------------------
(* engine/src/dynamic_system.rs: blocks, signals, CompoundSystem::new      *)

StateSpace(ss) == [t |-> "StateSpace", v |-> ss]
TransferFunction(tf) == [t |-> "TransferFunction", v |-> tf]
Difference == [t |-> "Difference", v |-> <<>>]

SystemInput == [t |-> "SystemInput", i |-> 0]
ComponentOutput(i) == [t |-> "ComponentOutput", i |-> i]

\* CompoundSystemComponentDefinition { block, name, reads_input_from }
ComponentDefinition(block, name, inputs) ==
    [block |-> block, name |-> name, reads_input_from |-> inputs]

\* variant: a name registered twice overwrites the earlier entry
RECURSIVE register_names_overwriting(_, _, _)
register_names_overwriting(components, i, signal_names) ==
    IF i > Len(components) THEN Ok(signal_names)
    ELSE register_names_overwriting(components, i + 1,
             (components[i].name :> ComponentOutput(i - 1)) @@ signal_names)

\* first loop: signal_names after registering components[i..], or the
\* duplicate-name error; indices are the 0-based enumerate() indices
RECURSIVE register_names(_, _, _)
register_names(components, i, signal_names) ==
    IF i > Len(components) THEN Ok(signal_names)
    ELSE LET name == components[i].name
         IN  IF name \in DOMAIN signal_names
             THEN Err(<<"duplicate name ", name>>)
             ELSE register_names(components, i + 1,
                      (name :> ComponentOutput(i - 1)) @@ signal_names)

\* variant: a name without a signal is read from the system input
RECURSIVE resolve_inputs_defaulting(_, _, _)
resolve_inputs_defaulting(inputs, k, signal_names) ==
    IF k > Len(inputs) THEN Ok(<<>>)
    ELSE Try(resolve_inputs_defaulting(inputs, k + 1, signal_names), LAMBDA rest :
         Ok(<<IF inputs[k] \in DOMAIN signal_names
              THEN signal_names[inputs[k]]
              ELSE SystemInput>> \o rest))

\* inner map: the inputs of one definition resolved left to right
RECURSIVE resolve_inputs(_, _, _)
resolve_inputs(inputs, k, signal_names) ==
    IF k > Len(inputs) THEN Ok(<<>>)
    ELSE IF inputs[k] \notin DOMAIN signal_names
         THEN Err(<<"signal ", inputs[k], " does not exist">>)
         ELSE Try(resolve_inputs(inputs, k + 1, signal_names), LAMBDA rest :
              Ok(<<signal_names[inputs[k]]>> \o rest))

\* outer map: the definitions resolved in order, stopping at the first error
RECURSIVE resolve_components(_, _, _)
resolve_components(components, i, signal_names) ==
    IF i > Len(components) THEN Ok(<<>>)
    ELSE Try(resolve_inputs(components[i].reads_input_from, 1, signal_names),
             LAMBDA ins :
         Try(resolve_components(components, i + 1, signal_names), LAMBDA rest :
         Ok(<<[block |-> components[i].block, name |-> components[i].name,
               reads_input_from |-> ins]>> \o rest)))

\* variant: a component is resolved against u and the names defined before it
CompoundSystem_new_forward_only(components) ==
    LET later(p, k) ==
            \E j \in p..Len(components) :
                components[j].name = components[p].reads_input_from[k]
        bad == {pk \in (1..Len(components)) \X (1..2) :
                   /\ pk[2] <= Len(components[pk[1]].reads_input_from)
                   /\ later(pk[1], pk[2])}
    IN  Try(register_names(components, 1, ("u" :> SystemInput)), LAMBDA signal_names :
        IF bad # {}
        THEN LET pk == CHOOSE x \in bad : TRUE
             IN  Err(<<"signal ", components[pk[1]].reads_input_from[pk[2]],
                       " does not exist">>)
        ELSE Try(resolve_components(components, 1, signal_names), LAMBDA resolved :
             Ok([components |-> resolved])))

CompoundSystem_new(components) ==
    Try(register_names(components, 1, ("u" :> SystemInput)), LAMBDA signal_names :
    Try(resolve_components(components, 1, signal_names), LAMBDA resolved :
    Ok([components |-> resolved])))

-----------------------------------------------------------------------------
(* ndarray slices.  Buffers are sequences; slice indices are 0-based as in *)
(* the source and shifted by one when a buffer is read or written.         *)

Slice(start, end, step) == [start |-> start, end |-> end, step |-> step]

\* Slice::new checks step != 0 with a debug assertion only
Slice_new(start, end, step, dbg) ==
    IF dbg /\ step = 0
    THEN Panic("Slice::new: step must be nonzero")
    ELSE Ok(Slice(start, end, step))

\* the indices a slice selects on an axis of length axis_len, in view order
SliceIndices(s, axis_len) ==
    LET end == IF s.end < s.start THEN s.start ELSE s.end
        m == end - s.start
        k == Abs(s.step)
        n == (m \div k) + (IF m % k > 0 THEN 1 ELSE 0)
    IN  IF s.start > axis_len \/ end > axis_len
        THEN Panic("Slice begin or end is past end of axis")
        ELSE IF s.step = 0 THEN Panic("Slice stride must not be zero")
        ELSE IF s.step > 0
             THEN Ok([j \in 1..n |-> s.start + (j - 1) * k])
             ELSE Ok([j \in 1..n |-> end - 1 - (j - 1) * k])

Range(f) == {f[i] : i \in DOMAIN f}

\* buf.slice(s![s])
ReadSlice(buf, s) ==
    Try(SliceIndices(s, Len(buf)), LAMBDA idx :
    Ok([j \in 1..Len(idx) |-> buf[idx[j] + 1]]))

\* buf.slice_mut(s![s]).assign(&vals), a single value being broadcast
AssignSlice(buf, s, vals) ==
    Try(SliceIndices(s, Len(buf)), LAMBDA idx :
    IF Len(vals) # Len(idx) /\ Len(vals) # 1
    THEN Panic("ndarray: could not broadcast array")
    ELSE Ok([p \in 1..Len(buf) |->
              IF \E j \in 1..Len(idx) : idx[j] + 1 = p
              THEN LET j == CHOOSE j \in 1..Len(idx) : idx[j] + 1 = p
                   IN  IF Len(vals) = 1 THEN vals[1] ELSE vals[j]
              ELSE buf[p]]))

\* variant: two views intersect as soon as their index ranges overlap
slices_intersect_by_range(s1, s2, axis_len) ==
    LET lo(f) == CHOOSE x \in Range(f) : \A y \in Range(f) : x <= y
        hi(f) == CHOOSE x \in Range(f) : \A y \in Range(f) : x >= y
    IN  Try(SliceIndices(s1, axis_len), LAMBDA i1 :
        Try(SliceIndices(s2, axis_len), LAMBDA i2 :
        Ok(/\ Range(i1) # {}
           /\ Range(i2) # {}
           /\ lo(i1) <= hi(i2)
           /\ lo(i2) <= hi(i1))))

\* multi_slice_mut panics when an element would appear in both views
slices_intersect(s1, s2, axis_len) ==
    Try(SliceIndices(s1, axis_len), LAMBDA i1 :
    Try(SliceIndices(s2, axis_len), LAMBDA i2 :
    Ok(Range(i1) \cap Range(i2) # {})))

-----------------------------------------------------------------------------
(* engine/src/dynamic_system.rs: Simulation::new                           *)

CalculateOutput(i) == [step |-> "CalculateOutput", system_id |-> i]
CalculateOutputWithFeedthrough(i) ==
    [step |-> "CalculateOutputWithFeedthrough", system_id |-> i]
UpdateState(i) == [step |-> "UpdateState", system_id |-> i]

\* the fixed state-space block of `a - b`
DifferenceModel ==
    DiscreteStateSpaceModel_new(Zeros(0, 0), Zeros(0, 2), Zeros(1, 0),
                                Mat(1, 2, <<<<F(1), F(0 - 1)>>>>))

\* match &component.block: the executable model, or None for a transfer
\* function that cannot be converted
block_executable(block) ==
    IF block.t = "StateSpace" THEN Some(block.v)
    ELSE IF block.t = "TransferFunction" THEN convert_to_state_space(block.v)
    ELSE DifferenceModel

\* first loop: state and output slices in definition order
RECURSIVE allocate_blocks(_, _, _, _, _)
allocate_blocks(components, i, signals_size, state_size_, blocks) ==
    IF i > Len(components)
    THEN Some([blocks |-> blocks, signals_size |-> signals_size,
               state_size |-> state_size_])
    ELSE Try(block_executable(components[i].block), LAMBDA executable :
         allocate_blocks(
             components, i + 1,
             signals_size + output_size(executable),
             state_size_ + state_size(executable),
             Append(blocks,
                    [executable |-> executable,
                     input_signal_mapping |-> Slice(0, 0, 1),
                     state_mapping |->
                         Slice(state_size_, state_size_ + state_size(executable), 1),
                     output_signal_mapping |->
                         Slice(signals_size, signals_size + output_size(executable), 1)])))

\* Signal -> the slice of the signal buffer that carries it
signal_slice(signal, blocks, input_signal_mapping) ==
    IF signal.t = "SystemInput" THEN Ok(input_signal_mapping)
    ELSE IF signal.i + 1 > Len(blocks) THEN Panic("index out of bounds")
    ELSE Ok(blocks[signal.i + 1].output_signal_mapping)

Min(a, b) == IF a < b THEN a ELSE b
Max(a, b) == IF a > b THEN a ELSE b

\* variant: the two inputs are viewed in the order of their buffer positions
input_mapping_by_position(reads_input_from, blocks, input_signal_mapping, dbg) ==
    IF Len(reads_input_from) = 1
    THEN signal_slice(reads_input_from[1], blocks, input_signal_mapping)
    ELSE IF Len(reads_input_from) = 2
    THEN Try(signal_slice(reads_input_from[1], blocks, input_signal_mapping),
             LAMBDA input1 :
         Try(signal_slice(reads_input_from[2], blocks, input_signal_mapping),
             LAMBDA input2 :
         IF input1.start + 1 # input1.end \/ input2.start + 1 # input2.end
         THEN Panic("can only subtract two signals of size 1")
         ELSE Slice_new(Min(input1.start, input2.start),
                        Max(input1.start, input2.start) + 1,
                        Max(input1.start, input2.start) - Min(input1.start, input2.start),
                        dbg)))
    ELSE Panic("explicit panic")

\* match component.reads_input_from[..]
input_mapping(reads_input_from, blocks, input_signal_mapping, dbg) ==
    IF Len(reads_input_from) = 1
    THEN signal_slice(reads_input_from[1], blocks, input_signal_mapping)
    ELSE IF Len(reads_input_from) = 2
    THEN Try(signal_slice(reads_input_from[1], blocks, input_signal_mapping),
             LAMBDA input1 :
         Try(signal_slice(reads_input_from[2], blocks, input_signal_mapping),
             LAMBDA input2 :
         IF input1.start + 1 # input1.end \/ input2.start + 1 # input2.end
         THEN Panic("can only subtract two signals of size 1")
         ELSE Slice_new(Min(input1.start, input2.start),
                        Max(input1.start, input2.start) + 1,
                        input2.start - input1.start,
                        dbg)))
    ELSE Panic("explicit panic")

\* second loop: blocks[i].input_signal_mapping = input_mapping
RECURSIVE map_inputs(_, _, _, _, _)
map_inputs(components, i, blocks, input_signal_mapping, dbg) ==
    IF i > Len(components) THEN Ok(blocks)
    ELSE Try(input_mapping(components[i].reads_input_from, blocks,
                           input_signal_mapping, dbg), LAMBDA m :
         map_inputs(components, i + 1,
                    [blocks EXCEPT ![i].input_signal_mapping = m],
                    input_signal_mapping, dbg))

\* variant: every block with an output gets CalculateOutput, whatever its D
RECURSIVE output_steps_by_output_size(_, _)
output_steps_by_output_size(blocks, i) ==
    IF i > Len(blocks) THEN <<>>
    ELSE (IF output_size(blocks[i].executable) > 0
          THEN <<CalculateOutput(i - 1)>>
          ELSE <<>>) \o output_steps_by_output_size(blocks, i + 1)

\* output steps in definition order, then state updates in definition order
RECURSIVE output_steps(_, _)
output_steps(blocks, i) ==
    IF i > Len(blocks) THEN <<>>
    ELSE (IF has_feedthrough(blocks[i].executable)
          THEN <<CalculateOutputWithFeedthrough(i - 1)>>
          ELSE IF output_size(blocks[i].executable) > 0
          THEN <<CalculateOutput(i - 1)>>
          ELSE <<>>) \o output_steps(blocks, i + 1)

RECURSIVE update_steps(_, _)
update_steps(blocks, i) ==
    IF i > Len(blocks) THEN <<>>
    ELSE (IF state_size(blocks[i].executable) > 0
          THEN <<UpdateState(i - 1)>>
          ELSE <<>>) \o update_steps(blocks, i + 1)

\* variant: the outputs are allocated from slot 0 on, the slot of u
Simulation_new_sharing_input_slot(system, dbg) ==
    Try(allocate_blocks(system.components, 1, 0, 0, <<>>), LAMBDA alloc :
    Try(map_inputs(system.components, 1, alloc.blocks, Slice(0, 1, 1), dbg),
        LAMBDA blocks :
    Some([blocks |-> blocks,
          execution_plan |-> output_steps(blocks, 1) \o update_steps(blocks, 1),
          input_signal_mapping |-> Slice(0, 1, 1),
          output_signal_mapping |-> alloc.signals_size - 1,
          state_size |-> alloc.state_size,
          signals_size |-> alloc.signals_size])))

Simulation_new(system, dbg) ==
    Try(allocate_blocks(system.components, 1, 1, 0, <<>>), LAMBDA alloc :
    Try(map_inputs(system.components, 1, alloc.blocks, Slice(0, 1, 1), dbg),
        LAMBDA blocks :
    Some([blocks |-> blocks,
          execution_plan |-> output_steps(blocks, 1) \o update_steps(blocks, 1),
          input_signal_mapping |-> Slice(0, 1, 1),
          output_signal_mapping |-> alloc.signals_size - 1,
          state_size |-> alloc.state_size,
          signals_size |-> alloc.signals_size])))

-----------------------------------------------------------------------------
(* engine/src/dynamic_system.rs: Simulation::execute                       *)

steps == 35

\* variant: UpdateState writes the new state to the head of the state buffer
execute_step_updating_head(sim, step, signals, states) ==
    LET block == sim.blocks[step.system_id + 1]
    IN  IF step.step = "CalculateOutput"
        THEN Try(ReadSlice(states, block.state_mapping), LAMBDA state :
             Try(calculate_output(block.executable, state), LAMBDA y :
             Try(AssignSlice(signals, block.output_signal_mapping, y), LAMBDA w :
             Ok([signals |-> w, states |-> states]))))
        ELSE IF step.step = "CalculateOutputWithFeedthrough"
        THEN Try(slices_intersect(block.input_signal_mapping,
                                  block.output_signal_mapping,
                                  Len(signals)), LAMBDA overlap :
             IF overlap THEN Panic("slice args 0 and 1 intersect")
             ELSE Try(ReadSlice(signals, block.input_signal_mapping), LAMBDA input :
                  Try(ReadSlice(states, block.state_mapping), LAMBDA state :
                  Try(calculate_output_with_feedthrough(block.executable, input, state),
                      LAMBDA y :
                  Try(AssignSlice(signals, block.output_signal_mapping, y), LAMBDA w :
                  Ok([signals |-> w, states |-> states]))))))
        ELSE Try(ReadSlice(signals, block.input_signal_mapping), LAMBDA input :
             Try(ReadSlice(states, block.state_mapping), LAMBDA state :
             Try(update_state(block.executable, input, state), LAMBDA x :
             Try(AssignSlice(states, Slice(0, Len(x), 1), x), LAMBDA w :
             Ok([signals |-> signals, states |-> w])))))

\* one entry of the execution plan applied to the two buffers
execute_step(sim, step, signals, states) ==
    LET block == sim.blocks[step.system_id + 1]
    IN  IF step.step = "CalculateOutput"
        THEN Try(ReadSlice(states, block.state_mapping), LAMBDA state :
             Try(calculate_output(block.executable, state), LAMBDA y :
             Try(AssignSlice(signals, block.output_signal_mapping, y), LAMBDA w :
             Ok([signals |-> w, states |-> states]))))
        ELSE IF step.step = "CalculateOutputWithFeedthrough"
        THEN Try(slices_intersect(block.input_signal_mapping,
                                  block.output_signal_mapping,
                                  Len(signals)), LAMBDA overlap :
             IF overlap THEN Panic("slice args 0 and 1 intersect")
             ELSE Try(ReadSlice(signals, block.input_signal_mapping), LAMBDA input :
                  Try(ReadSlice(states, block.state_mapping), LAMBDA state :
                  Try(calculate_output_with_feedthrough(block.executable, input, state),
                      LAMBDA y :
                  Try(AssignSlice(signals, block.output_signal_mapping, y), LAMBDA w :
                  Ok([signals |-> w, states |-> states]))))))
        ELSE Try(ReadSlice(signals, block.input_signal_mapping), LAMBDA input :
             Try(ReadSlice(states, block.state_mapping), LAMBDA state :
             Try(update_state(block.executable, input, state), LAMBDA x :
             Try(AssignSlice(states, block.state_mapping, x), LAMBDA w :
             Ok([signals |-> signals, states |-> w])))))

\* for step in &self.execution_plan, from plan position p on
RECURSIVE execute_plan(_, _, _, _)
execute_plan(sim, p, signals, states) ==
    IF p > Len(sim.execution_plan) THEN Ok([signals |-> signals, states |-> states])
    ELSE Try(execute_step(sim, sim.execution_plan[p], signals, states), LAMBDA r :
         execute_plan(sim, p + 1, r.signals, r.states))

\* one pass of `for i in 0..=steps`: write u, run the plan, sample the output
execute_cycle(sim, signals, states) ==
    Try(AssignSlice(signals, sim.input_signal_mapping, <<F(1)>>), LAMBDA su :
    Try(execute_plan(sim, 1, su, states), LAMBDA r :
    IF sim.output_signal_mapping + 1 > Len(r.signals)
    THEN Panic("index out of bounds")
    ELSE Ok([signals |-> r.signals, states |-> r.states,
             sample |-> r.signals[sim.output_signal_mapping + 1]])))

\* the passes i..j of `for i in 0..=steps`, continuing from the locals in
\* acc (or from the panic in it); a range of passes is run as its first
\* half followed by its second half, which keeps the evaluation shallow
RECURSIVE execute_cycles_to(_, _, _, _)
execute_cycles_to(sim, i, j, acc) ==
    IF ~IsOk(acc) \/ i > j THEN acc
    ELSE IF i = j
    THEN Try(execute_cycle(sim, acc.v.signals, acc.v.states), LAMBDA r :
         Ok([signals |-> r.signals, states |-> r.states,
             out |-> Append(acc.v.out, r.sample)]))
    ELSE execute_cycles_to(sim, (i + j) \div 2 + 1, j,
                           execute_cycles_to(sim, i, (i + j) \div 2, acc))

\* for i in 0..=steps, from pass i on
execute_cycles(sim, i, signals, states, out) ==
    Try(execute_cycles_to(sim, i, steps,
                          Ok([signals |-> signals, states |-> states, out |-> out])),
        LAMBDA r : Ok(r.out))

\* returns the Array1 of steps + 1 samples, or panics
Simulation_execute(sim) ==
    execute_cycles(sim, 0, Repeat(F(0), sim.signals_size),
                   Repeat(F(0), sim.state_size), <<>>)

-----------------------------------------------------------------------------
(* Text.  A rendered string is a sequence of pieces.  Numbers, polynomials *)
(* and arrays are rendered character by character; a name, a string        *)
(* literal of the program or a fixed message is one piece.                 *)

RECURSIVE Concat(_)
Concat(ss) == IF ss = <<>> THEN <<>> ELSE ss[1] \o Concat(Tail(ss))

RECURSIVE Join(_, _)
Join(ss, sep) ==
    IF ss = <<>> THEN <<>>
    ELSE IF Len(ss) = 1 THEN ss[1]
    ELSE ss[1] \o sep \o Join(Tail(ss), sep)

Digit(k) == <<"0", "1", "2", "3", "4", "5", "6", "7", "8", "9">>[k + 1]

RECURSIVE NatToString(_)
NatToString(n) ==
    IF n < 10 THEN <<Digit(n)>>
    ELSE NatToString(n \div 10) \o <<Digit(n % 10)>>

\* a limb below the top one, written with all its four digits
Limb(k) == <<Digit(k \div 1000), Digit((k \div 100) % 10),
             Digit((k \div 10) % 10), Digit(k % 10)>>

\* the limbs below the top one, most significant first
RECURSIVE LimbsToString(_)
LimbsToString(a) ==
    IF a = <<>> THEN <<>>
    ELSE Limb(a[Len(a)]) \o LimbsToString(SubSeq(a, 1, Len(a) - 1))

\* the decimal digits of a magnitude
MagnitudeToString(a) ==
    IF a = <<>> THEN <<"0">>
    ELSE NatToString(a[Len(a)]) \o LimbsToString(SubSeq(a, 1, Len(a) - 1))

\* fraction digits kept of a non-terminating decimal expansion (the last
\* digit is cut, not rounded)
MaxFractionDigits == 16

\* decimal digits of rem/d, 0 <= rem < d
RECURSIVE FractionDigits(_, _, _)
FractionDigits(rem, d, k) ==
    IF rem = <<>> \/ k = 0 THEN <<>>
    ELSE Bind(NatDivMod(NatMulLimb(rem, 10, 0), d), LAMBDA dm :
         <<Digit(NatToInt(dm.q))>> \o FractionDigits(dm.r, d, k - 1))

\* f64::to_string()
FloatToString(x) ==
    IF IsNaN(x) THEN <<"N", "a", "N">>
    ELSE IF IsInf(x) THEN (IF x.s < 0 THEN <<"-">> ELSE <<>>) \o <<"i", "n", "f">>
    ELSE Bind(NatDivMod(x.n, x.d), LAMBDA dm :
         (IF x.s < 0 THEN <<"-">> ELSE <<>>)
         \o MagnitudeToString(dm.q)
         \o (IF dm.r = <<>> THEN <<>>
             ELSE <<".">> \o FractionDigits(dm.r, x.d, MaxFractionDigits)))

RECURSIVE trim_end_matches(_, _)
trim_end_matches(s, ch) ==
    IF s # <<>> /\ s[Len(s)] = ch
    THEN trim_end_matches(SubSeq(s, 1, Len(s) - 1), ch)
    ELSE s

\* engine/src/lib.rs NiceFloat: format!("{:.3}") with trailing zeros and a
\* dangling point trimmed
NiceFloat(x) ==
    IF IsNaN(x) THEN <<"N", "a", "N">>
    ELSE IF IsInf(x) THEN (IF x.s < 0 THEN <<"-">> ELSE <<>>) \o <<"i", "n", "f">>
    ELSE Bind(NatDivMod(NatMulLimb(x.n, 1000, 0), x.d), LAMBDA dm :
         Bind(NatCmp(NatAdd(dm.r, dm.r), x.d), LAMBDA half :
         Bind(NatDivMod(IF half > 0 \/ (half = 0 /\ dm.q # <<>> /\ dm.q[1] % 2 = 1)
                        THEN NatAdd(dm.q, <<1>>)
                        ELSE dm.q,
                        <<1000>>), LAMBDA q :
         Bind(NatToInt(q.r), LAMBDA f :
         trim_end_matches(
             trim_end_matches(
                 (IF x.s < 0 THEN <<"-">> ELSE <<>>)
                 \o MagnitudeToString(q.q) \o <<".">>
                 \o <<Digit(f \div 100), Digit((f \div 10) % 10), Digit(f % 10)>>,
                 "0"),
             ".")))))

\* engine/src/transfer_function.rs format_poly, from 0-based index i on
RECURSIVE format_poly_from(_, _, _)
format_poly_from(vals, i, written) ==
    IF i >= Len(vals) THEN (IF written THEN <<>> ELSE <<"0">>)
    ELSE LET el == vals[i + 1]
         IN  IF FEq(el, F(0)) THEN format_poly_from(vals, i + 1, written)
             ELSE (IF FNe(el, F(1)) \/ i = 0
                   THEN (IF written
                         THEN (IF FLt(el, F(0))
                               THEN <<" ", "-", " ">> \o NiceFloat(FAbs(el))
                               ELSE <<" ", "+", " ">> \o NiceFloat(FAbs(el)))
                         ELSE NiceFloat(el))
                   ELSE <<>>)
                  \o (IF i > 0 THEN <<" ", "z", "^", "-">> \o NatToString(i) ELSE <<>>)
                  \o format_poly_from(vals, i + 1, TRUE)

format_poly(vals) == format_poly_from(vals, 0, FALSE)

den_is_one(tf) ==
    FEq(tf.den[1], F(1)) /\ \A j \in 2..Len(tf.den) : FEq(tf.den[j], F(0))

\* impl Display for DiscreteTransferFunction
TransferFunctionToString(tf) ==
    Bind(format_poly(tf.num), LAMBDA num :
    Bind(format_poly(tf.den), LAMBDA den :
    Bind(IF den_is_one(tf) THEN Len(num) ELSE Max(Len(num), Len(den)), LAMBDA len :
    Repeat(" ", (len - Len(num)) \div 2) \o num \o <<"\n">>
    \o (IF den_is_one(tf) THEN <<>>
        ELSE Repeat("-", len) \o <<"\n">>
             \o Repeat(" ", (len - Len(den)) \div 2) \o den \o <<"\n">>))))

\* ndarray Display of a 1-D and of a 2-D array
VectorToString(v) ==
    <<"[">> \o Join([i \in 1..Len(v) |-> FloatToString(v[i])], <<",", " ">>) \o <<"]">>

MatrixToString(m) ==
    IF m.rows = 0 \/ m.cols = 0 THEN <<"[", "[", "]", "]">>
    ELSE <<"[">>
         \o Join([i \in 1..m.rows |-> VectorToString(m.e[i])], <<",", "\n", " ">>)
         \o <<"]">>

\* impl Display for DiscreteStateSpaceModel
StateSpaceToString(ss) ==
    <<"A", ":", " ">> \o MatrixToString(ss.a) \o <<" ">>
    \o <<"B", ":", " ">> \o MatrixToString(ss.b) \o <<" ">>
    \o <<"C", ":", " ">> \o MatrixToString(ss.c) \o <<" ">>
    \o <<"D", ":", " ">> \o MatrixToString(ss.d) \o <<" ">>

-----------------------------------------------------------------------------
(* interpreter/src/ast.rs                                                  *)

ExpressionStatement(e) == [k |-> "ExpressionStatement", id |-> "", e |-> e]
Assign(id, e) == [k |-> "Assign", id |-> id, e |-> e]

Identifier(id) == [k |-> "Identifier", id |-> id]
StringLiteral(s) == [k |-> "StringLiteral", s |-> s]
FloatLiteral(f) == [k |-> "FloatLiteral", f |-> f]
VectorLiteral(elements) == [k |-> "VectorLiteral", elements |-> elements]
UnOp(op, e) == [k |-> "UnOp", op |-> op, e |-> e]
BinOp(op, e1, e2) == [k |-> "BinOp", op |-> op, e1 |-> e1, e2 |-> e2]
FunctionCall(function, arguments) ==
    [k |-> "FunctionCall", function |-> function, arguments |-> arguments]
System(items) == [k |-> "System", items |-> items]

\* SystemItem { output_name, rhs }
ItemDifference(output_name, input1_name, input2_name) ==
    [output_name |-> output_name, rhs |-> "Difference",
     a |-> input1_name, b |-> input2_name]
ItemSystem(output_name, system_name, input_name) ==
    [output_name |-> output_name, rhs |-> "System",
     a |-> system_name, b |-> input_name]

-----------------------------------------------------------------------------
(* interpreter/src/execution.rs: Error, Value, Output                      *)

NullDeref(id) == [t |-> "NullDeref", v |-> <<id>>]
UnknownFunction(id) == [t |-> "UnknownFunction", v |-> <<id>>]
TypeError == [t |-> "TypeError", v |-> <<>>]
IncorrectNumberOfArguments(expected, got) ==
    [t |-> "IncorrectNumberOfArguments", v |-> <<expected, got>>]
Other(msg) == [t |-> "Other", v |-> msg]

VString(s) == [t |-> "String", v |-> s]
VFloat(f) == [t |-> "Float", v |-> f]
VVector(v) == [t |-> "Vector", v |-> v]
VMatrix(m) == [t |-> "Matrix", v |-> m]
VBuiltInFunction(f) == [t |-> "BuiltInFunction", v |-> f]
VTransferFunction(tf) == [t |-> "TransferFunction", v |-> tf]
VStateSpaceModel(ss) == [t |-> "StateSpaceModel", v |-> ss]
VCompoundSystem(s) == [t |-> "CompoundSystem", v |-> s]

OutErr(e) == [t |-> "Err", v |-> e]
OutText(s) == [t |-> "Text", v |-> s]
OutPlot(m) == [t |-> "Plot", v |-> m]
OutSystem(s) == [t |-> "System", v |-> s]

\* impl From<&Value> for Output
OutputFrom(value) ==
    IF value.t = "String" THEN OutText(<<value.v>>)
    ELSE IF value.t = "Vector" THEN OutText(VectorToString(value.v))
    ELSE IF value.t = "Matrix" THEN OutPlot(value.v)
    ELSE IF value.t = "Float" THEN OutText(FloatToString(value.v))
    ELSE IF value.t = "BuiltInFunction" THEN OutText(<<"<builtin_function>">>)
    ELSE IF value.t = "TransferFunction" THEN OutText(TransferFunctionToString(value.v))
    ELSE IF value.t = "StateSpaceModel" THEN OutText(StateSpaceToString(value.v))
    ELSE OutSystem(value.v)

\* Value::get_system
get_system(value) ==
    IF value.t = "TransferFunction" THEN Ok(TransferFunction(value.v))
    ELSE IF value.t = "StateSpaceModel" THEN Ok(StateSpace(value.v))
    ELSE Err(TypeError)

get_default_values ==
    [n \in {"load", "tf", "tf2ss", "step"} |->
        IF n = "load" THEN VBuiltInFunction("Load")
        ELSE IF n = "tf" THEN VBuiltInFunction("TransferFunction")
        ELSE IF n = "tf2ss" THEN VBuiltInFunction("Tf2Ss")
        ELSE VBuiltInFunction("Step")]

-----------------------------------------------------------------------------
(* The Env port.  A file is the list of records the csv reader yields for  *)
(* its text; a cell is the f64 it parses to, or Unparsable.                *)

Cell(f) == [ok |-> TRUE, f |-> f]
Unparsable == [ok |-> FALSE, f |-> F(0)]

Files ==
    [n \in {"empty.csv", "data.csv", "text.csv", "ragged.csv"} |->
        IF n = "empty.csv" THEN <<>>
        ELSE IF n = "data.csv"
        THEN << <<Cell(F(1)), Cell(F(2))>>, <<Cell(F(3)), Cell(F(4))>>,
                <<Cell(F(5)), Cell(F(6))>> >>
        ELSE IF n = "text.csv"
        THEN << <<Cell(F(1)), Unparsable>> >>
        ELSE << <<Cell(F(1)), Cell(F(2))>>, <<Cell(F(3))>> >>]

read_file(name) == IF name \in DOMAIN Files THEN Some(Files[name]) ELSE None

\* Array2::push(Axis(0), row): the row must be as long as the array is wide
push_row(m, row) ==
    IF Len(row) # m.cols THEN Err("ShapeError")
    ELSE Ok(Mat(m.rows + 1, m.cols, Append(m.e, row)))

\* the body of `for (i, result) in rdr.records().enumerate()`, 0-based i
RECURSIVE load_records(_, _, _)
load_records(records, i, m) ==
    IF i >= Len(records) THEN Ok(VMatrix(m))
    ELSE LET record == records[i + 1]
             m0 == IF i = 0 THEN Zeros(Len(record), 0) ELSE m
         IN  \* the reader is not flexible: a record of another width is an Err
             IF Len(record) # Len(records[1])
             THEN Err(Other(<<"Error while parsing csv">>))
             ELSE IF \E j \in 1..Len(record) : ~record[j].ok
             THEN Panic("called Result::unwrap on an Err value")
             ELSE Bind(push_row(m0, [j \in 1..Len(record) |-> record[j].f]),
                       LAMBDA pushed :
                  IF IsErr(pushed)
                  THEN Panic("all columns to be of equal length")
                  ELSE load_records(records, i + 1, pushed.v))

-----------------------------------------------------------------------------
(* interpreter/src/execution.rs: eval                                      *)

\* the binary operators on two Floats
apply_binop(op, f1, f2) ==
    IF op = "Add" THEN FAdd(f1, f2)
    ELSE IF op = "Sub" THEN FSub(f1, f2)
    ELSE IF op = "Mul" THEN FMul(f1, f2)
    ELSE FDiv(f1, f2)

\* the Step arm once its argument has been evaluated to `system`
eval_step(system, dbg) ==
    Try(IF system.t = "CompoundSystem" THEN Ok(system.v)
        ELSE Bind(get_system(system), LAMBDA block :
             IF ~IsOk(block) THEN Err(TypeError)
             ELSE Bind(CompoundSystem_new(
                           <<ComponentDefinition(block.v, "", <<"u">>)>>), LAMBDA s :
                  IF IsErr(s) THEN Err(Other(s.v)) ELSE s)),
        LAMBDA compound :
    Bind(Simulation_new(compound, dbg), LAMBDA sim :
    IF IsPanic(sim) THEN sim
    ELSE IF IsNone(sim) THEN Err(Other(<<"could not init sim">>))
    ELSE Try(Simulation_execute(sim.v), LAMBDA out :
         \* output.insert_axis(Axis(0))
         Ok(VMatrix(Mat(1, Len(out), <<out>>))))))

\* values.get(id).ok_or(Error::NullDeref(id))
lookup(id, env) ==
    IF id \in DOMAIN env THEN Ok(env[id]) ELSE Err(NullDeref(id))

\* the System arm: the definitions of the items, in order
RECURSIVE system_items(_, _, _)
system_items(items, k, env) ==
    IF k > Len(items) THEN Ok(<<>>)
    ELSE LET item == items[k]
         IN  Try(IF item.rhs = "Difference"
                 THEN Ok(ComponentDefinition(Difference, item.output_name,
                                             <<item.a, item.b>>))
                 ELSE Try(lookup(item.a, env), LAMBDA value :
                      Try(get_system(value), LAMBDA block :
                      Ok(ComponentDefinition(block, item.output_name, <<item.b>>)))),
                 LAMBDA def :
             Try(system_items(items, k + 1, env), LAMBDA rest :
             Ok(<<def>> \o rest)))

\* variant: the callee's error is passed on as it is
callee_error_unmapped(r) == r

\* map_err on the callee: NullDeref becomes UnknownFunction
callee_error(r) ==
    IF IsErr(r) /\ r.v.t = "NullDeref" THEN Err(UnknownFunction(r.v.v[1])) ELSE r

\* variant: a value of another variant is reported as Other
expect_other_error(r, variant) ==
    IF ~IsOk(r) THEN r
    ELSE IF r.v.t # variant THEN Err(Other(<<"unexpected value">>))
    ELSE Ok(r.v.v)

\* `let Value::<variant>(x) = <r>? else { return Err(Error::TypeError) }`
expect(r, variant) ==
    IF ~IsOk(r) THEN r
    ELSE IF r.v.t # variant THEN Err(TypeError)
    ELSE Ok(r.v.v)

\* variant: every built-in is taken to have two parameters
expected_num_args_two(function) == 2

\* the number each arm compares num_args with
expected_num_args(function) == IF function = "TransferFunction" THEN 2 ELSE 1

RECURSIVE eval(_, _, _)
RECURSIVE eval_elements(_, _, _, _)

\* the VectorLiteral arm: elements[k..] evaluated left to right
eval_elements(elements, k, env, dbg) ==
    IF k > Len(elements) THEN Ok(<<>>)
    ELSE Try(expect(eval(elements[k], env, dbg), "Float"), LAMBDA f :
         Try(eval_elements(elements, k + 1, env, dbg), LAMBDA rest :
         Ok(<<f>> \o rest)))

\* the FunctionCall arm once the callee is known to be the built-in `function`
eval_call(function, arguments, env, dbg) ==
    IF Len(arguments) # expected_num_args(function)
    THEN Err(IncorrectNumberOfArguments(expected_num_args(function), Len(arguments)))
    ELSE IF function = "Load"
    THEN Try(expect(eval(arguments[1], env, dbg), "String"), LAMBDA file_name :
         Bind(read_file(file_name), LAMBDA text :
         IF IsNone(text)
         THEN Err(Other(<<"file ", file_name, " could not be read">>))
         ELSE load_records(text.v, 0, Zeros(0, 0))))
    ELSE IF function = "TransferFunction"
    THEN Try(expect(eval(arguments[1], env, dbg), "Vector"), LAMBDA num :
         Try(expect(eval(arguments[2], env, dbg), "Vector"), LAMBDA den :
         Bind(DiscreteTransferFunction_new(num, den), LAMBDA tf :
         IF IsNone(tf) THEN Err(Other(<<"Could not construct tf">>))
         ELSE Ok(VTransferFunction(tf.v)))))
    ELSE IF function = "Tf2Ss"
    THEN Try(expect(eval(arguments[1], env, dbg), "TransferFunction"), LAMBDA tf :
         Bind(convert_to_state_space(tf), LAMBDA ss :
         IF IsNone(ss) THEN Err(Other(<<"Could not convert to state space">>))
         ELSE Ok(VStateSpaceModel(ss.v))))
    ELSE \* Step
         Try(eval(arguments[1], env, dbg), LAMBDA system :
         eval_step(system, dbg))

eval(expr, env, dbg) ==
    IF expr.k = "Identifier" THEN lookup(expr.id, env)
    ELSE IF expr.k = "StringLiteral" THEN Ok(VString(expr.s))
    ELSE IF expr.k = "FloatLiteral" THEN Ok(VFloat(expr.f))
    ELSE IF expr.k = "VectorLiteral"
    THEN Try(eval_elements(expr.elements, 1, env, dbg), LAMBDA elements :
         Ok(VVector(elements)))
    ELSE IF expr.k = "UnOp"
    THEN Try(expect(eval(expr.e, env, dbg), "Float"), LAMBDA f :
         Ok(VFloat(FNeg(f))))
    ELSE IF expr.k = "BinOp"
    THEN Try(expect(eval(expr.e1, env, dbg), "Float"), LAMBDA f1 :
         Try(expect(eval(expr.e2, env, dbg), "Float"), LAMBDA f2 :
         Ok(VFloat(apply_binop(expr.op, f1, f2)))))
    ELSE IF expr.k = "FunctionCall"
    THEN Try(expect(callee_error(eval(expr.function, env, dbg)), "BuiltInFunction"),
             LAMBDA function :
         eval_call(function, expr.arguments, env, dbg))
    ELSE \* System
         Try(system_items(expr.items, 1, env), LAMBDA sub_systems :
         Bind(CompoundSystem_new(sub_systems), LAMBDA s :
         IF IsErr(s) THEN Err(Other(s.v)) ELSE Ok(VCompoundSystem(s.v))))

-----------------------------------------------------------------------------
(* interpreter/src/execution.rs: execute, one action per arm of the loop   *)

\* Ok(value) => output.push((&value).into()); Err(e) => output.push(Err(e))
execute_ExpressionStatement ==
    /\ status = "running"
    /\ pc <= Len(program)
    /\ program[pc].k = "ExpressionStatement"
    /\ LET r == eval(program[pc].e, values, debug_assertions)
       IN  IF IsPanic(r)
           THEN /\ status' = "aborted"
                /\ UNCHANGED <<pc, output>>
           ELSE /\ output' = Append(output,
                                    IF IsOk(r) THEN OutputFrom(r.v) ELSE OutErr(r.v))
                /\ pc' = pc + 1
                /\ UNCHANGED status
    /\ UNCHANGED <<program, values, debug_assertions, browser, call, result>>

\* variant: the name is bound although the evaluation failed
execute_Assign_binding_on_error ==
    /\ status = "running"
    /\ pc <= Len(program)
    /\ program[pc].k = "Assign"
    /\ LET r == eval(program[pc].e, values, debug_assertions)
       IN  IF IsPanic(r)
           THEN /\ status' = "aborted"
                /\ UNCHANGED <<pc, output, values>>
           ELSE IF IsOk(r)
           THEN /\ values' = (program[pc].id :> r.v) @@ values
                /\ pc' = pc + 1
                /\ UNCHANGED <<output, status>>
           ELSE /\ output' = Append(output, OutErr(r.v))
                /\ values' = (program[pc].id :> VFloat(F(0))) @@ values
                /\ pc' = pc + 1
                /\ UNCHANGED status
    /\ UNCHANGED <<program, debug_assertions, browser, call, result>>

\* Ok(value) => values.insert(id, value); Err(e) => output.push(Err(e))
execute_Assign ==
    /\ status = "running"
    /\ pc <= Len(program)
    /\ program[pc].k = "Assign"
    /\ LET r == eval(program[pc].e, values, debug_assertions)
       IN  IF IsPanic(r)
           THEN /\ status' = "aborted"
                /\ UNCHANGED <<pc, output, values>>
           ELSE IF IsOk(r)
           THEN /\ values' = (program[pc].id :> r.v) @@ values
                /\ pc' = pc + 1
                /\ UNCHANGED <<output, status>>
           ELSE /\ output' = Append(output, OutErr(r.v))
                /\ pc' = pc + 1
                /\ UNCHANGED <<values, status>>
    /\ UNCHANGED <<program, debug_assertions, browser, call, result>>

\* the loop is exhausted: `output` is returned
execute_return ==
    /\ status = "running"
    /\ pc > Len(program)
    /\ status' = "returned"
    /\ UNCHANGED <<program, pc, values, output, debug_assertions, browser, call, result>>

-----------------------------------------------------------------------------
(* Programs executed: every sequence of at most MaxStmts statements drawn  *)
(* from the catalogue below.                                               *)

MaxStmts == 2

Num(n) == FloatLiteral(F(n))
Vec(ns) == VectorLiteral([i \in 1..Len(ns) |-> Num(ns[i])])
Call(name, arguments) == FunctionCall(Identifier(name), arguments)
Tf(num, den) == Call("tf", <<Vec(num), Vec(den)>>)

\* system { e = u - y; y = p(e) }
FeedbackLoop ==
    System(<<ItemDifference("e", "u", "y"), ItemSystem("y", "p", "e")>>)

Statements == <<
    \* bindings
    Assign("a", Num(1)),
    Assign("a", Identifier("foo")),
    Assign("a", BinOp("Div", Num(3), BinOp("Add", Num(1), Num(3)))),
    Assign("p", Tf(<<1>>, <<1>>)),
    Assign("p", Tf(<<0, 1>>, <<1, 0>>)),
    Assign("p", Tf(<<1, 1>>, <<1, 0>>)),
    Assign("p", Tf(<<1>>, <<0, 1>>)),
    Assign("p", Call("tf2ss", <<Tf(<<1, 1>>, <<1, 0>>)>>)),
    Assign("p", Tf(<<0>>, <<1>>)),
    \* identifiers
    ExpressionStatement(Identifier("a")),
    ExpressionStatement(Identifier("p")),
    ExpressionStatement(Identifier("foo")),
    ExpressionStatement(Identifier("tf")),
    \* callee and argument lookups
    ExpressionStatement(Call("foo", <<Num(1)>>)),
    ExpressionStatement(Call("step", <<Identifier("foo")>>)),
    ExpressionStatement(Call("a", <<Num(1)>>)),
    \* arity
    ExpressionStatement(Call("tf", <<Vec(<<1>>)>>)),
    ExpressionStatement(Call("load", <<>>)),
    ExpressionStatement(Call("tf2ss", <<Identifier("p"), Identifier("p")>>)),
    ExpressionStatement(Call("step", <<>>)),
    ExpressionStatement(Call("step", <<Call("tf", <<Vec(<<1>>)>>)>>)),
    \* operand and argument types
    ExpressionStatement(BinOp("Add", StringLiteral("s"), Num(1))),
    ExpressionStatement(BinOp("Sub", Num(1), StringLiteral("s"))),
    ExpressionStatement(BinOp("Mul", Identifier("a"), Num(2))),
    ExpressionStatement(UnOp("Neg", StringLiteral("s"))),
    ExpressionStatement(UnOp("Neg", Identifier("a"))),
    ExpressionStatement(VectorLiteral(<<Num(1), StringLiteral("s")>>)),
    ExpressionStatement(VectorLiteral(<<Num(1), UnOp("Neg", Num(2))>>)),
    ExpressionStatement(Call("load", <<Num(1)>>)),
    ExpressionStatement(Call("tf", <<Num(1), Vec(<<1>>)>>)),
    ExpressionStatement(Call("tf", <<Vec(<<1>>), Num(1)>>)),
    ExpressionStatement(Call("tf", <<Vec(<<>>), Vec(<<1>>)>>)),
    ExpressionStatement(Call("tf2ss", <<Num(1)>>)),
    ExpressionStatement(Call("tf2ss", <<Identifier("p")>>)),
    ExpressionStatement(Call("step", <<Identifier("a")>>)),
    \* files
    ExpressionStatement(Call("load", <<StringLiteral("missing.csv")>>)),
    ExpressionStatement(Call("load", <<StringLiteral("empty.csv")>>)),
    ExpressionStatement(Call("load", <<StringLiteral("data.csv")>>)),
    ExpressionStatement(Call("load", <<StringLiteral("text.csv")>>)),
    ExpressionStatement(Call("load", <<StringLiteral("ragged.csv")>>)),
    \* simulation
    ExpressionStatement(Call("step", <<Identifier("p")>>)),
    ExpressionStatement(FeedbackLoop),
    ExpressionStatement(Call("step", <<FeedbackLoop>>)),
    ExpressionStatement(Call("step",
        <<System(<<ItemDifference("e", "u", "u")>>)>>)),
    ExpressionStatement(Call("step",
        <<System(<<ItemDifference("e", "u", "e")>>)>>))
>>

InitExec ==
    /\ \E len \in 0..MaxStmts :
         \E idx \in [1..len -> 1..Len(Statements)] :
            program = [i \in 1..len |-> Statements[idx[i]]]
    /\ pc = 1
    /\ values = get_default_values
    /\ output = <<>>
    /\ status = "running"
    /\ debug_assertions \in BOOLEAN
    /\ PageLoaded
    /\ call = [fn |-> "none", args |-> <<>>]
    /\ result = [r |-> "Pending", v |-> <<>>]

NextExec ==
    \/ execute_ExpressionStatement
    \/ execute_Assign
    \/ execute_return

SpecExec == InitExec /\ [][NextExec]_vars

-----------------------------------------------------------------------------
(* Engine constructors called directly: the call is drawn in the initial   *)
(* state and one action applies the function to it.                        *)

MaxComponents == 3
MaxCoefficients == 2

Pending == [r |-> "Pending", v |-> <<>>]

ComponentNames == <<"u", "e", "y">>
InputLists ==
    << <<"u">>, <<"e">>, <<"y">>, <<"x">>,
       <<"u", "y">>, <<"y", "u">>, <<"e", "x">> >>
Coefficients == <<0, 1, 0 - 1, 2>>

UnitGain == [num |-> <<F(1)>>, den |-> <<F(1)>>]

\* the definition the evaluator builds for `name = a - b` or `name = g(a)`
Definition(name, inputs) ==
    ComponentDefinition(IF Len(inputs) = 2 THEN Difference
                        ELSE TransferFunction(UnitGain),
                        name, inputs)

InitEngine ==
    /\ \/ \E len \in 0..MaxComponents :
            \E ns \in [1..len -> 1..Len(ComponentNames)] :
              \E ins \in [1..len -> 1..Len(InputLists)] :
                call = [fn |-> "CompoundSystem::new",
                        args |-> [i \in 1..len |->
                                    Definition(ComponentNames[ns[i]],
                                               InputLists[ins[i]])]]
       \/ \E ln \in 0..MaxCoefficients, ld \in 0..MaxCoefficients :
            \E num \in [1..ln -> 1..Len(Coefficients)] :
              \E den \in [1..ld -> 1..Len(Coefficients)] :
                call = [fn |-> "DiscreteTransferFunction::new",
                        args |-> << [i \in 1..ln |-> F(Coefficients[num[i]])],
                                    [i \in 1..ld |-> F(Coefficients[den[i]])] >>]
    /\ result = Pending
    /\ program = <<>>
    /\ pc = 1
    /\ values = get_default_values
    /\ output = <<>>
    /\ status = "idle"
    /\ debug_assertions = FALSE
    /\ PageLoaded

call_CompoundSystem_new ==
    /\ call.fn = "CompoundSystem::new"
    /\ result = Pending
    /\ result' = CompoundSystem_new(call.args)
    /\ UNCHANGED <<call, program, pc, values, output, status, debug_assertions, browser>>

call_DiscreteTransferFunction_new ==
    /\ call.fn = "DiscreteTransferFunction::new"
    /\ result = Pending
    /\ result' = DiscreteTransferFunction_new(call.args[1], call.args[2])
    /\ UNCHANGED <<call, program, pc, values, output, status, debug_assertions, browser>>

NextEngine ==
    \/ call_CompoundSystem_new
    \/ call_DiscreteTransferFunction_new

SpecEngine == InitEngine /\ [][NextEngine]_vars

-----------------------------------------------------------------------------
(* Properties of execute and eval, checked under SpecExec                  *)

\* the statement the loop has just finished, and the Output it appended
Executed == status # "aborted" /\ pc > 1
LastStatement == program[pc - 1]
LastOutput == output[Len(output)]

IsErrOutput(o, kind) == o.t = "Err" /\ o.v.t = kind
SameValue(x, y) == x.t = y.t /\ x.v = y.v
SameEnvironment(e1, e2) ==
    /\ DOMAIN e1 = DOMAIN e2
    /\ \A n \in DOMAIN e1 : SameValue(e1[n], e2[n])

Unbound(e) == e.k = "Identifier" /\ e.id \notin DOMAIN values
BoundToBuiltIn(e) ==
    /\ e.k = "Identifier"
    /\ e.id \in DOMAIN values
    /\ values[e.id].t = "BuiltInFunction"

\* the arity the built-ins are documented with: tf takes 2, the others 1
Arity(function) == IF function = "TransferFunction" THEN 2 ELSE 1

\* C1: a statement whose evaluation returns an error leaves the
\* environment exactly as it was (a failing assignment binds nothing), and
\* the loop goes on to the next statement with that environment.
C1_FailingStatementKeepsEnvironment ==
    [][(/\ status = "running"
        /\ pc <= Len(program)
        /\ IsErr(eval(program[pc].e, values, debug_assertions)))
       => (/\ SameEnvironment(values', values)
           /\ pc' = pc + 1
           /\ status' = "running"
           /\ program' = program)]_vars

\* a = foo failed, and the next statement `a` ran in the unchanged
\* environment: both reported NullDeref
C1_Witness ==
    /\ Executed /\ pc = 3
    /\ program[1].k = "Assign" /\ program[1].id = "a"
    /\ program[2].k = "ExpressionStatement" /\ program[2].e.k = "Identifier"
    /\ program[2].e.id = "a"
    /\ Len(output) = 2
    /\ IsErrOutput(output[1], "NullDeref") /\ output[1].v.v = <<"foo">>
    /\ IsErrOutput(output[2], "NullDeref") /\ output[2].v.v = <<"a">>
    /\ "a" \notin DOMAIN values

\* C2: execute returns for every program, and its list holds one Output per
\* expression statement and one Err per failing assignment, in statement
\* order; a successful assignment appends nothing.
C2_ExecuteReturnsOneOutputPerStatement ==
    /\ [](status # "aborted")
    /\ [][pc' = pc + 1 =>
            LET r == eval(program[pc].e, values, debug_assertions)
            IN  IF program[pc].k = "ExpressionStatement"
                THEN /\ Len(output') = Len(output) + 1
                     /\ SubSeq(output', 1, Len(output)) = output
                     /\ output'[Len(output')].t =
                            (IF IsOk(r) THEN OutputFrom(r.v).t ELSE "Err")
                ELSE IF IsErr(r)
                THEN /\ Len(output') = Len(output) + 1
                     /\ SubSeq(output', 1, Len(output)) = output
                     /\ output'[Len(output')].t = "Err"
                ELSE output' = output]_vars

\* C3: an unbound identifier evaluates to NullDeref(name); as the callee of
\* a call it gives UnknownFunction(name); as the argument of a call of a
\* built-in it still gives NullDeref(name).
C3_UnboundIdentifier ==
    (Executed /\ LastStatement.k = "ExpressionStatement") =>
        LET e == LastStatement.e
        IN  /\ Unbound(e) =>
                (IsErrOutput(LastOutput, "NullDeref") /\ LastOutput.v.v = <<e.id>>)
            /\ (e.k = "FunctionCall" /\ Unbound(e.function)) =>
                (/\ IsErrOutput(LastOutput, "UnknownFunction")
                 /\ LastOutput.v.v = <<e.function.id>>)
            /\ (/\ e.k = "FunctionCall"
                /\ BoundToBuiltIn(e.function)
                /\ Len(e.arguments) = Arity(values[e.function.id].v)
                /\ Unbound(e.arguments[1])) =>
                (/\ IsErrOutput(LastOutput, "NullDeref")
                 /\ LastOutput.v.v = <<e.arguments[1].id>>)

\* foo(1) then step(foo): UnknownFunction(foo), then NullDeref(foo)
C3_Witness ==
    /\ Executed /\ pc = 3 /\ Len(output) = 2
    /\ program[1].k = "ExpressionStatement" /\ program[1].e.k = "FunctionCall"
    /\ Unbound(program[1].e.function) /\ program[1].e.function.id = "foo"
    /\ IsErrOutput(output[1], "UnknownFunction") /\ output[1].v.v = <<"foo">>
    /\ program[2].k = "ExpressionStatement" /\ program[2].e.k = "FunctionCall"
    /\ BoundToBuiltIn(program[2].e.function)
    /\ Len(program[2].e.arguments) = 1
    /\ Unbound(program[2].e.arguments[1])
    /\ IsErrOutput(output[2], "NullDeref") /\ output[2].v.v = <<"foo">>


\* C4: a call of a built-in with a wrong number of arguments yields
\* IncorrectNumberOfArguments(expected, got), expected being 2 for tf and 1
\* for load, tf2ss and step; a call with the right number never raises it
\* (it can only pass on the one raised inside one of its arguments).
C4_IncorrectNumberOfArguments ==
    (/\ Executed
     /\ LastStatement.k = "ExpressionStatement"
     /\ LastStatement.e.k = "FunctionCall"
     /\ BoundToBuiltIn(LastStatement.e.function)) =>
        LET e == LastStatement.e
            expected == Arity(values[e.function.id].v)
            got == Len(e.arguments)
        IN  /\ got # expected =>
                (/\ IsErrOutput(LastOutput, "IncorrectNumberOfArguments")
                 /\ LastOutput.v.v = <<expected, got>>)
            /\ (got = expected /\ IsErrOutput(LastOutput, "IncorrectNumberOfArguments")) =>
                \E k \in 1..got :
                    LET a == eval(e.arguments[k], values, debug_assertions)
                    IN  /\ IsErr(a)
                        /\ a.v.t = "IncorrectNumberOfArguments"
                        /\ a.v.v = LastOutput.v.v

\* tf([1]) reported (2, 1) and step() reported (1, 0)
C4_Witness ==
    /\ Executed /\ pc = 3 /\ Len(output) = 2
    /\ program[1].k = "ExpressionStatement" /\ program[1].e.k = "FunctionCall"
    /\ BoundToBuiltIn(program[1].e.function)
    /\ values[program[1].e.function.id].v = "TransferFunction"
    /\ Len(program[1].e.arguments) = 1
    /\ IsErrOutput(output[1], "IncorrectNumberOfArguments")
    /\ output[1].v.v = <<2, 1>>
    /\ program[2].k = "ExpressionStatement" /\ program[2].e.k = "FunctionCall"
    /\ BoundToBuiltIn(program[2].e.function)
    /\ values[program[2].e.function.id].v = "Step"
    /\ Len(program[2].e.arguments) = 0
    /\ IsErrOutput(output[2], "IncorrectNumberOfArguments")
    /\ output[2].v.v = <<1, 0>>

\* the operand e evaluates, to a value that is not of the given variants
EvaluatesToOther(e, variants) ==
    LET r == eval(e, values, debug_assertions)
    IN  IsOk(r) /\ r.v.t \notin variants
EvaluatesTo(e, variant) ==
    LET r == eval(e, values, debug_assertions)
    IN  IsOk(r) /\ r.v.t = variant

\* C5: an operand or argument that evaluates to a value of the wrong
\* variant gives TypeError and no value: the operands of + - * /, the
\* operand of unary minus, an element of a vector literal, a callee that is
\* not a function, and the argument of load (String), tf (two Vectors),
\* tf2ss (TF) and step (TF, SS or CompoundSystem).  Operands are taken left
\* to right and the arity check of C4 comes before the arguments.
C5_TypeError ==
    (Executed /\ LastStatement.k = "ExpressionStatement") =>
        LET e == LastStatement.e
            TypeErr == IsErrOutput(LastOutput, "TypeError")
        IN  /\ (e.k = "BinOp" /\ EvaluatesToOther(e.e1, {"Float"})) => TypeErr
            /\ (/\ e.k = "BinOp"
                /\ EvaluatesTo(e.e1, "Float")
                /\ EvaluatesToOther(e.e2, {"Float"})) => TypeErr
            /\ (e.k = "UnOp" /\ EvaluatesToOther(e.e, {"Float"})) => TypeErr
            /\ (/\ e.k = "VectorLiteral"
                /\ \E k \in 1..Len(e.elements) :
                     /\ EvaluatesToOther(e.elements[k], {"Float"})
                     /\ \A j \in 1..(k - 1) : EvaluatesTo(e.elements[j], "Float"))
               => TypeErr
            /\ (/\ e.k = "FunctionCall"
                /\ EvaluatesToOther(e.function, {"BuiltInFunction"})) => TypeErr
            /\ (/\ e.k = "FunctionCall"
                /\ BoundToBuiltIn(e.function)
                /\ Len(e.arguments) = Arity(values[e.function.id].v)) =>
                LET f == values[e.function.id].v
                    a == e.arguments
                IN  /\ (f = "Load" /\ EvaluatesToOther(a[1], {"String"})) => TypeErr
                    /\ (f = "TransferFunction" /\ EvaluatesToOther(a[1], {"Vector"}))
                       => TypeErr
                    /\ (/\ f = "TransferFunction"
                        /\ EvaluatesTo(a[1], "Vector")
                        /\ EvaluatesToOther(a[2], {"Vector"})) => TypeErr
                    /\ (f = "Tf2Ss" /\ EvaluatesToOther(a[1], {"TransferFunction"}))
                       => TypeErr
                    /\ (/\ f = "Step"
                        /\ EvaluatesToOther(a[1], {"TransferFunction", "StateSpaceModel",
                                                   "CompoundSystem"})) => TypeErr

\* 1 - "s" and tf([1], 1) both reported TypeError
C5_Witness ==
    /\ Executed /\ pc = 3 /\ Len(output) = 2
    /\ program[1].k = "ExpressionStatement" /\ program[1].e.k = "BinOp"
    /\ EvaluatesTo(program[1].e.e1, "Float")
    /\ EvaluatesToOther(program[1].e.e2, {"Float"})
    /\ IsErrOutput(output[1], "TypeError")
    /\ program[2].k = "ExpressionStatement" /\ program[2].e.k = "FunctionCall"
    /\ BoundToBuiltIn(program[2].e.function)
    /\ values[program[2].e.function.id].v = "TransferFunction"
    /\ Len(program[2].e.arguments) = 2
    /\ EvaluatesTo(program[2].e.arguments[1], "Vector")
    /\ EvaluatesToOther(program[2].e.arguments[2], {"Vector"})
    /\ IsErrOutput(output[2], "TypeError")

\* system { e = u - y; y = plant(e) }, whatever the three names
IsFeedbackLoop(e) ==
    /\ e.k = "System"
    /\ Len(e.items) = 2
    /\ e.items[1].rhs = "Difference"
    /\ e.items[1].a = "u"
    /\ e.items[1].b = e.items[2].output_name
    /\ e.items[2].rhs = "System"
    /\ e.items[2].b = e.items[1].output_name
    /\ e.items[1].output_name # e.items[2].output_name
    /\ e.items[1].output_name # "u"
    /\ e.items[2].output_name # "u"

\* the plant of the loop is bound to a state-space model, or to a transfer
\* function that converts to one (den[0] is not 0)
PlantBound(e) ==
    LET plant == e.items[2].a
    IN  /\ plant \in DOMAIN values
        /\ \/ values[plant].t = "StateSpaceModel"
           \/ /\ values[plant].t = "TransferFunction"
              /\ FNe(values[plant].v.den[1], F(0))

IsStepOfFeedbackLoop(e) ==
    /\ e.k = "FunctionCall"
    /\ BoundToBuiltIn(e.function)
    /\ values[e.function.id].v = "Step"
    /\ Len(e.arguments) = 1
    /\ IsFeedbackLoop(e.arguments[1])

\* C9: with plant bound to a TF or SS, system { e = u - y; y = plant(e) }
\* evaluates to a CompoundSystem, and step of it neither errs nor aborts
\* and yields a 1 x 36 matrix.
C9_FeedbackLoopBuildsAndSteps ==
    /\ (status = "aborted" /\ pc <= Len(program)) =>
          LET e == program[pc].e
          IN  /\ ~(IsFeedbackLoop(e) /\ PlantBound(e))
              /\ ~(IsStepOfFeedbackLoop(e) /\ PlantBound(e.arguments[1]))
    /\ (Executed /\ LastStatement.k = "ExpressionStatement") =>
          LET e == LastStatement.e
          IN  /\ (IsFeedbackLoop(e) /\ PlantBound(e)) => LastOutput.t = "System"
              /\ (IsStepOfFeedbackLoop(e) /\ PlantBound(e.arguments[1])) =>
                    (/\ LastOutput.t = "Plot"
                     /\ LastOutput.v.rows = 1
                     /\ LastOutput.v.cols = 36
                     /\ Len(LastOutput.v.e) = 1
                     /\ Len(LastOutput.v.e[1]) = 36)

\* p = <a transfer function with state>; step(system { e = u - y; y = p(e) })
\* produced a 1 x 36 plot
C9_Witness ==
    /\ Executed /\ pc = 3 /\ Len(output) = 1
    /\ program[1].k = "Assign"
    /\ program[2].k = "ExpressionStatement"
    /\ IsStepOfFeedbackLoop(program[2].e)
    /\ PlantBound(program[2].e.arguments[1])
    /\ values[program[2].e.arguments[1].items[2].a].t = "TransferFunction"
    /\ Len(values[program[2].e.arguments[1].items[2].a].v.den) = 2
    /\ output[1].t = "Plot"
    /\ output[1].v.cols = 36

-----------------------------------------------------------------------------
(* Properties of the engine constructors, checked under SpecEngine         *)

Returned(fn) == call.fn = fn /\ result.r # "Pending"
IsErrString(r, msg) == IsErr(r) /\ r.v = msg

definitions == call.args
\* positions are the 1-based positions in the definition list
Offending(i) ==
    \/ definitions[i].name = "u"
    \/ \E j \in 1..(i - 1) : definitions[j].name = definitions[i].name
NoDuplicate == \A i \in 1..Len(definitions) : ~Offending(i)
Exists(n) ==
    n = "u" \/ \E j \in 1..Len(definitions) : definitions[j].name = n
InputPositions ==
    {pk \in (1..Len(definitions)) \X (1..2) :
        pk[2] <= Len(definitions[pk[1]].reads_input_from)}
InputName(pk) == definitions[pk[1]].reads_input_from[pk[2]]
Before(a, b) == a[1] < b[1] \/ (a[1] = b[1] /\ a[2] < b[2])
NoMissing == \A pk \in InputPositions : Exists(InputName(pk))
ValidSignal(s, n) ==
    s.t = "SystemInput" \/ (s.t = "ComponentOutput" /\ s.i \in 0..(n - 1))

\* C6: a definition list in which some component is named u or repeats the
\* name of an earlier component is rejected with "duplicate name <n>", n
\* being the name of the first such component in definition order; every
\* system returned has pairwise distinct component names, none equal to u.
C6_DuplicateNameRejected ==
    Returned("CompoundSystem::new") =>
        /\ \A i \in 1..Len(definitions) :
              (Offending(i) /\ \A j \in 1..(i - 1) : ~Offending(j)) =>
                  IsErrString(result, <<"duplicate name ", definitions[i].name>>)
        /\ IsOk(result) =>
              LET cs == result.v.components
              IN  /\ \A i \in 1..Len(cs) : cs[i].name # "u"
                  /\ \A i, j \in 1..Len(cs) :
                        i # j => cs[i].name # cs[j].name

\* e, u, e: the component named u is the first offender, before the
\* second e
C6_Witness ==
    /\ Returned("CompoundSystem::new")
    /\ Len(definitions) = 3
    /\ definitions[1].name = "e"
    /\ definitions[2].name = "u"
    /\ definitions[3].name = "e"
    /\ IsErrString(result, <<"duplicate name ", "u">>)

\* C7: when some component lists an input name that is neither u nor the
\* name of any component, no system is returned, and (the names being
\* free of duplicates) the error is "signal <n> does not exist" for the
\* first such input; in every returned system each input reference is
\* SystemInput or ComponentOutput(i) with i a valid component index.
C7_MissingSignalRejected ==
    Returned("CompoundSystem::new") =>
        /\ \A pk \in InputPositions :
              (/\ ~Exists(InputName(pk))
               /\ \A qk \in InputPositions :
                     Before(qk, pk) => Exists(InputName(qk)))
              => /\ IsErr(result)
                 /\ NoDuplicate =>
                      IsErrString(result,
                          <<"signal ", InputName(pk), " does not exist">>)
        /\ IsOk(result) =>
              LET cs == result.v.components
              IN  \A p \in 1..Len(cs) :
                    \A k \in 1..Len(cs[p].reads_input_from) :
                       ValidSignal(cs[p].reads_input_from[k], Len(cs))

\* e = e - x: the second input does not exist, the first one does
C7_Witness ==
    /\ Returned("CompoundSystem::new")
    /\ NoDuplicate
    /\ Len(definitions) >= 1
    /\ definitions[1].name = "e"
    /\ definitions[1].reads_input_from = <<"e", "x">>
    /\ IsErrString(result, <<"signal ", "x", " does not exist">>)

\* the signal a name stands for once every component is registered
IndexOf(n) == CHOOSE j \in 1..Len(definitions) : definitions[j].name = n
SignalOf(n) == IF n = "u" THEN SystemInput ELSE ComponentOutput(IndexOf(n) - 1)
RefersToSelfOrLater(pk) ==
    \E j \in pk[1]..Len(definitions) : definitions[j].name = InputName(pk)

\* C8 (as stated): in every returned system each input of the component at
\* position p is SystemInput or ComponentOutput(i) with i < p, and a
\* definition naming its own output or that of a later component as input
\* is rejected.
C8_StrictForwardReference ==
    Returned("CompoundSystem::new") =>
        /\ IsOk(result) =>
              LET cs == result.v.components
              IN  \A p \in 1..Len(cs) :
                    \A k \in 1..Len(cs[p].reads_input_from) :
                       LET s == cs[p].reads_input_from[k]
                       IN  s.t = "SystemInput" \/ s.i < p - 1
        /\ (\E pk \in InputPositions : RefersToSelfOrLater(pk)) => IsErr(result)

\* C8 (amended): every name is registered before any input is resolved, so
\* a definition list without duplicate and without missing names is always
\* accepted, self and later references included, and each input of the
\* returned system is the signal of the component carrying that name,
\* wherever it is defined.
C8_ResolutionAgainstAllNames ==
    Returned("CompoundSystem::new") =>
        /\ (NoDuplicate /\ NoMissing) => IsOk(result)
        /\ IsOk(result) =>
              LET cs == result.v.components
              IN  /\ Len(cs) = Len(definitions)
                  /\ \A pk \in InputPositions :
                        LET s == cs[pk[1]].reads_input_from[pk[2]]
                            w == SignalOf(InputName(pk))
                        IN  s.t = w.t /\ s.i = w.i

\* e = u - y; y = g(e): e reads the output of the later component y
C8_Witness ==
    /\ Returned("CompoundSystem::new")
    /\ Len(definitions) = 2
    /\ definitions[1].name = "e"
    /\ definitions[1].reads_input_from = <<"u", "y">>
    /\ definitions[2].name = "y"
    /\ definitions[2].reads_input_from = <<"e">>
    /\ IsOk(result)
    /\ result.v.components[1].reads_input_from[2].t = "ComponentOutput"
    /\ result.v.components[1].reads_input_from[2].i = 1

numerator == call.args[1]
denominator == call.args[2]

\* C10: DiscreteTransferFunction::new returns None exactly when num or den
\* is empty; what it returns otherwise has num and den of one length, the
\* larger of the two input lengths (at least 1), and the longer input is
\* stored as given.
C10_TransferFunctionLengths ==
    Returned("DiscreteTransferFunction::new") =>
        /\ IsNone(result) <=> (Len(numerator) = 0 \/ Len(denominator) = 0)
        /\ ~IsNone(result) =>
              /\ Len(result.v.num) = Len(result.v.den)
              /\ Len(result.v.num) = Max(Len(numerator), Len(denominator))
              /\ Len(result.v.num) >= 1
              /\ Len(numerator) >= Len(denominator) => result.v.num = numerator
              /\ Len(denominator) >= Len(numerator) => result.v.den = denominator

\* a numerator of one coefficient against a denominator of two
C10_Witness ==
    /\ Returned("DiscreteTransferFunction::new")
    /\ Len(numerator) = 1
    /\ Len(denominator) = 2
    /\ ~IsNone(result)
    /\ Len(result.v.num) = 2
    /\ result.v.den = denominator

-----------------------------------------------------------------------------
(* Programs about one transfer function: tf(num, den) is bound and         *)
(* stepped, shown, stepped directly or converted. The coefficient lists    *)
(* are every list of 1..MaxCoefficients entries of TransferCoefficients;   *)
(* the stepped ones have a numerator of one coefficient, and the lists of  *)
(* the engine's own tests are shown and converted.                         *)

TransferCoefficients == <<F(0), F(1), Q(0 - 1, 2)>>

\* tf_display, state_space_conversion and gain_only of transfer_function.rs,
\* and a numerator longer than the denominator
TestTransferFunctions == <<
    << <<F(0 - 1), Q(3, 2), F(0 - 2)>>, <<Q(3, 2), Q(1, 2), Q(3, 4)>> >>,
    << <<F(1), Q(3, 2), F(2)>>, <<Q(3, 2), Q(1, 2), Q(3, 4)>> >>,
    << <<F(2)>>, <<F(3)>> >>,
    << <<F(1), F(2)>>, <<F(1)>> >>
>>

CoefficientLists ==
    UNION { { [i \in 1..len |-> TransferCoefficients[idx[i]]] :
                idx \in [1..len -> 1..Len(TransferCoefficients)] } :
            len \in 1..MaxCoefficients }

\* the literal the parser builds for a coefficient: -x is Neg applied to x
Literal(c) == IF c.s < 0 THEN UnOp("Neg", FloatLiteral(FNeg(c))) ELSE FloatLiteral(c)
Literals(cs) == VectorLiteral([i \in 1..Len(cs) |-> Literal(cs[i])])
TfOf(num, den) == Call("tf", <<Literals(num), Literals(den)>>)

\* shown or converted
ConversionPrograms(num, den) == {
    <<ExpressionStatement(TfOf(num, den))>>,
    <<ExpressionStatement(Call("tf2ss", <<TfOf(num, den)>>))>> }

\* bound and stepped, or stepped directly
StepPrograms(num, den) == {
    <<Assign("a", TfOf(num, den)), ExpressionStatement(Call("step", <<Identifier("a")>>))>>,
    <<ExpressionStatement(Call("step", <<TfOf(num, den)>>))>> }

InitTransfer ==
    /\ \/ \E num \in CoefficientLists, den \in CoefficientLists :
            program \in ConversionPrograms(num, den)
       \/ \E num \in CoefficientLists, den \in CoefficientLists :
            /\ Len(num) = 1
            /\ program \in StepPrograms(num, den)
       \/ \E t \in 1..Len(TestTransferFunctions) :
            program \in ConversionPrograms(TestTransferFunctions[t][1],
                                           TestTransferFunctions[t][2])
    /\ pc = 1
    /\ values = get_default_values
    /\ output = <<>>
    /\ status = "running"
    /\ debug_assertions \in BOOLEAN
    /\ PageLoaded
    /\ call = [fn |-> "none", args |-> <<>>]
    /\ result = [r |-> "Pending", v |-> <<>>]

NextTransfer ==
    \/ execute_ExpressionStatement
    \/ execute_Assign
    \/ execute_return

SpecTransfer == InitTransfer /\ [][NextTransfer]_vars

-----------------------------------------------------------------------------
(* Properties of tf, step and tf2ss on one transfer function, checked      *)
(* under SpecTransfer                                                      *)

\* the call tf(num, den) of the program and the two lists the caller wrote
TransferCall ==
    IF program[1].e.function.id = "tf" THEN program[1].e
    ELSE program[1].e.arguments[1]
Supplied(k) == eval(TransferCall.arguments[k], get_default_values, FALSE).v.v
SuppliedLength == Max(Len(Supplied(1)), Len(Supplied(2)))

\* `a = tf(num, den)` has been executed: the transfer function bound to a
TransferBound == pc > 1 /\ program[1].k = "Assign"
Stored == values["a"].v

PadTrailing(v, n) == v \o Repeat(F(0), n - Len(v))

\* C11: when num and den differ in length the shorter one is padded with
\* trailing zeros, so every supplied coefficient keeps its index and the
\* added zeros take the highest indices: the stored num and den are the
\* supplied lists followed by zeros.
C11_TrailingZeroPadding ==
    TransferBound =>
        /\ Stored.num = PadTrailing(Supplied(1), SuppliedLength)
        /\ Stored.den = PadTrailing(Supplied(2), SuppliedLength)

RECURSIVE FPow(_, _)
FPow(x, k) == IF k = 0 THEN F(1) ELSE FMul(x, FPow(x, k - 1))

\* a = tf([1], [1, -0.5]); step(a)
FirstOrderLag ==
    <<Assign("a", TfOf(<<F(1)>>, <<F(1), Q(0 - 1, 2)>>)),
      ExpressionStatement(Call("step", <<Identifier("a")>>))>>

\* the row of samples of a Plot
Samples(o) == o.v.e[1]
IsPlotOfRow(o) == o.t = "Plot" /\ o.v.rows = 1 /\ o.v.cols = steps + 1

\* C12: for the program `a = tf([1], [1, -0.5]); step(a)` the only output is
\* a Plot of a 1 x 36 row whose first four entries are 1, 1.5, 1.75, 1.875
\* and whose last entry (sample 35) differs from 2 by at most 2 * 0.5^35.
C12_FirstOrderLagStepResponse ==
    (program = FirstOrderLag /\ pc > Len(program)) =>
        /\ Len(output) = 1
        /\ IsPlotOfRow(output[1])
        /\ SubSeq(Samples(output[1]), 1, 4) = <<F(1), Q(3, 2), Q(7, 4), Q(15, 8)>>
        /\ ~FLt(FMul(F(2), FPow(Q(1, 2), steps)),
                FAbs(FSub(Samples(output[1])[steps + 1], F(2))))

\* the shapes of the one-statement programs, and the end of the program
Shows == Len(program) = 1 /\ program[1].e.function.id = "tf"
Converts == Len(program) = 1 /\ program[1].e.function.id = "tf2ss"
StepsDirectly == Len(program) = 1 /\ program[1].e.function.id = "step"
Finished == pc > Len(program)

\* the transfer function the call constructs from the supplied lists
Constructed == DiscreteTransferFunction_new(Supplied(1), Supplied(2)).v

IsText(o, s) == o.t = "Text" /\ o.v = s
IsErrOther(o, msg) == IsErrOutput(o, "Other") /\ o.v.v = msg

\* tf([1], [0, 1]) as an expression statement
ZeroLeadingDenominator == <<ExpressionStatement(TfOf(<<F(1)>>, <<F(0), F(1)>>))>>

\* C13, as stated: the expression statement tf([1], [0, 1]) reports an
\* error: its output is an Err and not the Text rendering of a transfer
\* function, because den[0] = 0.
C13_ZeroLeadingDenominatorIsAnError ==
    (program = ZeroLeadingDenominator /\ Finished) =>
        /\ Len(output) = 1
        /\ output[1].t = "Err"

\* C13, amended: construction does not look at den[0]. A tf(num, den) whose
\* denominator starts with 0 (and is at least as long as the numerator) is
\* a value: as an expression statement it is shown as Text; the error
\* Other("Could not convert to state space") is what tf2ss reports for it.
C13_ZeroLeadingDenominatorIsShown ==
    (Finished /\ Len(Supplied(2)) >= Len(Supplied(1)) /\ FEq(Supplied(2)[1], F(0))) =>
        /\ Shows =>
             /\ Len(output) = 1
             /\ IsText(output[1], TransferFunctionToString(Constructed))
        /\ Converts =>
             /\ Len(output) = 1
             /\ IsErrOther(output[1], <<"Could not convert to state space">>)

C13_Witness ==
    /\ program = ZeroLeadingDenominator
    /\ Finished
    /\ output[1].t = "Text"

-----------------------------------------------------------------------------
(* Properties of planning and simulation, checked under SpecExec           *)

\* the statement is `step(x)` as an expression statement
IsStepStatement(s) ==
    /\ s.k = "ExpressionStatement"
    /\ s.e.k = "FunctionCall"
    /\ BoundToBuiltIn(s.e.function)
    /\ values[s.e.function.id].v = "Step"
    /\ Len(s.e.arguments) = 1

\* its argument evaluates to a compound system or to a single block
StepArgument(s) == eval(s.e.arguments[1], values, debug_assertions)
Steppable(s) ==
    /\ IsStepStatement(s)
    /\ IsOk(StepArgument(s))
    /\ StepArgument(s).v.t \in {"CompoundSystem", "TransferFunction", "StateSpaceModel"}

\* the compound system that step plans: the argument itself, or the single
\* block reading u
SteppedSystem(s) ==
    IF StepArgument(s).v.t = "CompoundSystem" THEN StepArgument(s).v.v
    ELSE CompoundSystem_new(
             <<ComponentDefinition(get_system(StepArgument(s).v).v, "", <<"u">>)>>).v

\* some TransferFunction block of the system has den[0] = 0
HasUnconvertibleBlock(system) ==
    \E i \in 1..Len(system.components) :
        /\ system.components[i].block.t = "TransferFunction"
        /\ FEq(system.components[i].block.v.den[1], F(0))

\* C14: convert_to_state_space returns None exactly when the stored den[0]
\* is 0; Simulation::new returns None exactly when some TransferFunction
\* block of the system has den[0] = 0; step of such a system yields
\* Err(Other(..)), no Plot, and does not reach the execution (no abort).
C14_PlanningFailsExactlyOnZeroLeadingDenominator ==
    /\ \A id \in DOMAIN values :
          values[id].t = "TransferFunction" =>
              (IsNone(convert_to_state_space(values[id].v))
                  <=> FEq(values[id].v.den[1], F(0)))
    /\ (status = "running" /\ pc <= Len(program) /\ Steppable(program[pc])) =>
          (IsNone(Simulation_new(SteppedSystem(program[pc]), debug_assertions))
              <=> HasUnconvertibleBlock(SteppedSystem(program[pc])))
    /\ (Executed /\ Steppable(LastStatement)
           /\ HasUnconvertibleBlock(SteppedSystem(LastStatement))) =>
          /\ IsErrOther(LastOutput, <<"could not init sim">>)
          /\ LastOutput.t # "Plot"
    /\ (status = "aborted" /\ pc <= Len(program) /\ Steppable(program[pc])) =>
          ~HasUnconvertibleBlock(SteppedSystem(program[pc]))

\* p = tf([1], [0, 1]); step(system { e = u - y; y = p(e) }) reported
\* "could not init sim"
C14_Witness ==
    /\ Executed
    /\ Steppable(LastStatement)
    /\ StepArgument(LastStatement).v.t = "CompoundSystem"
    /\ HasUnconvertibleBlock(SteppedSystem(LastStatement))
    /\ IsErrOther(LastOutput, <<"could not init sim">>)

-----------------------------------------------------------------------------
(* Properties of the rendering and of the step response, checked under     *)
(* SpecTransfer                                                            *)

\* the number of lines of a rendered text
RECURSIVE Lines(_)
Lines(s) ==
    IF s = <<>> THEN 0
    ELSE (IF s[1] = "\n" THEN 1 ELSE 0) + Lines(Tail(s))

\* the polynomial is the constant 1
IsConstantOne(p) == FEq(p[1], F(1)) /\ \A j \in 2..Len(p) : FEq(p[j], F(0))

\* tf([1, 2], [1]) as an expression statement
NumeratorOnly == <<ExpressionStatement(TfOf(<<F(1), F(2)>>, <<F(1)>>))>>

\* C15: the rendering of a transfer function has the divider line and the
\* denominator line suppressed exactly when the denominator equals the
\* constant 1; tf([1, 2], [1]) renders as the single line "1 + 2 z^-1".
C15_DenominatorOneIsNotDrawn ==
    (Shows /\ Finished) =>
        /\ Len(output) = 1
        /\ output[1].t = "Text"
        /\ Lines(output[1].v) = 1 <=> IsConstantOne(Supplied(2))
        /\ program = NumeratorOnly =>
              output[1].v = <<"1", " ", "+", " ", "2", " ", "z", "^", "-", "1", "\n">>

\* the last statement of the program is step of the transfer function
Steps == StepsDirectly \/ Len(program) = 2

\* the program is about the pure gain tf([k], [1])
IsGain == Len(Supplied(1)) = 1 /\ Supplied(2) = <<F(1)>>
Gain == Supplied(1)[1]

\* C16: for every gain k (positive, negative, and 0, where the block has no
\* feedthrough) step(tf([k], [1])) returns a 1 x 36 matrix whose entries
\* all equal k.
C16_GainStepResponseIsConstant ==
    (Steps /\ Finished /\ IsGain) =>
        /\ Len(output) = 1
        /\ IsPlotOfRow(output[1])
        /\ Samples(output[1]) = Repeat(Gain, steps + 1)

\* step(tf([0], [1])) returned the row of 36 zeros
C16_Witness ==
    /\ StepsDirectly
    /\ Finished
    /\ IsGain
    /\ FEq(Gain, F(0))
    /\ IsPlotOfRow(output[1])
    /\ Len(Samples(output[1])) = steps + 1

\* Simulation::new returns Some for the system the statement steps
Planned(s) == IsOk(Simulation_new(SteppedSystem(s), debug_assertions))

\* C17: execution does not fail: for every accepted compound system for
\* which Simulation::new returns Some, Simulation::execute runs the 36
\* cycles without aborting and returns 36 samples.
C17_ExecutionDoesNotFail ==
    /\ (pc <= Len(program) /\ Steppable(program[pc]) /\ Planned(program[pc])) =>
          status # "aborted"
    /\ (Executed /\ Steppable(LastStatement) /\ Planned(LastStatement)) =>
          /\ IsPlotOfRow(LastOutput)
          /\ Len(Samples(LastOutput)) = steps + 1

-----------------------------------------------------------------------------
(* Properties of load, checked under SpecExec                              *)

\* the statement is `load("name")` as an expression statement
IsLoadStatement(s) ==
    /\ s.k = "ExpressionStatement"
    /\ s.e.k = "FunctionCall"
    /\ s.e.function.k = "Identifier"
    /\ s.e.function.id = "load"
    /\ Len(s.e.arguments) = 1
    /\ s.e.arguments[1].k = "StringLiteral"
FileName(s) == s.e.arguments[1].s
Readable(s) == IsOk(read_file(FileName(s)))
Records(s) == read_file(FileName(s)).v

\* some cell does not parse as a float, or some row is not as wide as row 0
HasUnparsableCell(records) ==
    \E i \in 1..Len(records) : \E j \in 1..Len(records[i]) : ~records[i][j].ok
HasRaggedRow(records) ==
    \E i \in 1..Len(records) : Len(records[i]) # Len(records[1])

\* the load fails: no file, or a file that is not a table of numbers
LoadFails(s) ==
    \/ ~Readable(s)
    \/ HasUnparsableCell(Records(s))
    \/ HasRaggedRow(Records(s))

\* C18: no failure of load is fatal: an unreadable file gives
\* Err(Other("file <name> could not be read")), a cell that does not parse
\* or a row of another width than row 0 gives Err(Other(message)), and in
\* each case the interpreter does not abort but goes on to the next
\* statement.
C18_LoadFailuresAreNotFatal ==
    /\ (pc <= Len(program) /\ IsLoadStatement(program[pc]) /\ LoadFails(program[pc])) =>
          status # "aborted"
    /\ (Executed /\ IsLoadStatement(LastStatement) /\ LoadFails(LastStatement)) =>
          /\ IsErrOutput(LastOutput, "Other")
          /\ ~Readable(LastStatement) =>
                LastOutput.v.v = <<"file ", FileName(LastStatement), " could not be read">>

\* a table of N >= 1 rows that each hold the same K >= 1 numeric cells
IsNumericTable(records) ==
    /\ Len(records) >= 1
    /\ Len(records[1]) >= 1
    /\ ~HasUnparsableCell(records)
    /\ ~HasRaggedRow(records)

\* C19: for a CSV text of N >= 1 rows of K >= 1 numeric cells each, load
\* returns a Matrix with K rows and N columns whose entry (j, i) is cell j
\* of CSV row i.
C19_LoadTransposesTheTable ==
    /\ (pc <= Len(program) /\ IsLoadStatement(program[pc]) /\ Readable(program[pc])
           /\ IsNumericTable(Records(program[pc]))) =>
          status # "aborted"
    /\ (Executed /\ IsLoadStatement(LastStatement) /\ Readable(LastStatement)
           /\ IsNumericTable(Records(LastStatement))) =>
          /\ LastOutput.t = "Plot"
          /\ LastOutput.v.rows = Len(Records(LastStatement)[1])
          /\ LastOutput.v.cols = Len(Records(LastStatement))
          /\ \A j \in 1..LastOutput.v.rows : \A i \in 1..LastOutput.v.cols :
                LastOutput.v.e[j][i] = Records(LastStatement)[i][j].f

\* the controllable canonical form of num / den with d0 = den[0] # 0
\* (indices of the claim are 0-based, those of the sequences 1-based)
ControllableCanonicalForm(num, den) ==
    LET d0 == den[1]
        order == Len(den) - 1
    IN  [a |-> Mat(order, order,
                   [i \in 1..order |->
                       [j \in 1..order |->
                           IF i = 1 THEN FNeg(FDiv(den[j + 1], d0))
                           ELSE IF i = j + 1 THEN F(1)
                           ELSE F(0)]]),
         b |-> Mat(order, 1, [i \in 1..order |-> <<IF i = 1 THEN F(1) ELSE F(0)>>]),
         c |-> Mat(1, order,
                   <<[j \in 1..order |->
                        FSub(FDiv(num[j + 1], d0),
                             FDiv(FMul(den[j + 1], num[1]), FMul(d0, d0)))]>>),
         d |-> Mat(1, 1, <<<<FDiv(num[1], d0)>>>>)]

\* tf2ss(tf([2], [3])) and tf2ss(tf([1, 1.5, 2], [1.5, 0.5, 0.75]))
GainOnly == <<ExpressionStatement(Call("tf2ss", <<TfOf(<<F(2)>>, <<F(3)>>)>>))>>
SecondOrder ==
    <<ExpressionStatement(Call("tf2ss",
        <<TfOf(<<F(1), Q(3, 2), F(2)>>, <<Q(3, 2), Q(1, 2), Q(3, 4)>>)>>))>>

\* C20: for every transfer function with den[0] = d0 # 0,
\* convert_to_state_space yields the controllable canonical form: row 0 of
\* A is -den[j+1]/d0, A[i+1,i] = 1, B = [1, 0, ..], C[0,j] = num[j+1]/d0
\* - den[j+1]*num[0]/d0^2, D = [[num[0]/d0]]; num = [2], den = [3] gives
\* empty A, B, C and D = [[2/3]], and num = [1, 1.5, 2],
\* den = [1.5, 0.5, 0.75] gives A = [[-1/3, -1/2], [1, 0]], B = [1, 0],
\* C = [7/9, 1], D = [[2/3]].
C20_ControllableCanonicalForm ==
    (Converts /\ Finished /\ FNe(Constructed.den[1], F(0))) =>
        /\ convert_to_state_space(Constructed)
              = Some(ControllableCanonicalForm(Constructed.num, Constructed.den))
        /\ Len(output) = 1
        /\ IsText(output[1],
                  StateSpaceToString(
                      ControllableCanonicalForm(Constructed.num, Constructed.den)))
        /\ program = GainOnly =>
              convert_to_state_space(Constructed)
                  = Some([a |-> Mat(0, 0, <<>>),
                          b |-> Mat(0, 1, <<>>),
                          c |-> Mat(1, 0, << <<>> >>),
                          d |-> Mat(1, 1, << <<Q(2, 3)>> >>)])
        /\ program = SecondOrder =>
              convert_to_state_space(Constructed)
                  = Some([a |-> Mat(2, 2, << <<Q(0 - 1, 3), Q(0 - 1, 2)>>,
                                             <<F(1), F(0)>> >>),
                          b |-> Mat(2, 1, << <<F(1)>>, <<F(0)>> >>),
                          c |-> Mat(1, 2, << <<Q(7, 9), F(1)>> >>),
                          d |-> Mat(1, 1, << <<Q(2, 3)>> >>)])

\* tf2ss(tf([1, 1.5, 2], [1.5, 0.5, 0.75])) has shown its state-space model
C20_Witness ==
    /\ program = SecondOrder
    /\ Finished
    /\ output[1].t = "Text"

-----------------------------------------------------------------------------
(* Simulation::new and Simulation::execute called directly on a system     *)
(* accepted by CompoundSystem::new.  The plan is built in one action; the  *)
(* loop of execute is followed entry by entry of the execution plan, its   *)
(* locals (i, the position in the plan, signals, states, output) being the *)
(* value of `result` while the call is running.                            *)
(*                                                                         *)
(* Systems: components named after SimulationNames in this order, each a   *)
(* difference of two signals or a one-input block (a first-order lag       *)
(* without feedthrough, a gain, or a two-state model without outputs).     *)
(* Every such system is planned.  Those of at most two components, and     *)
(* those of three whose first two blocks are fed by u and whose third is a *)
(* difference or is fed by u as well, are also executed.                   *)

SimulationNames == <<"e", "y", "z">>
SignalNames == <<"u">> \o SimulationNames

\* tf([1], [1, -0.5]): one state, no feedthrough
Lag == TransferFunction(DiscreteTransferFunction_new(<<F(1)>>, <<F(1), Q(0 - 1, 2)>>).v)
\* tf([2], [1]): no state, feedthrough
Double == TransferFunction(DiscreteTransferFunction_new(<<F(2)>>, <<F(1)>>).v)
\* a model with two states and one input that produces no output
Sink ==
    StateSpace(DiscreteStateSpaceModel_new(
        Mat(2, 2, <<<<Q(1, 2), F(0)>>, <<F(1), F(0)>>>>),
        Mat(2, 1, <<<<F(1)>>, <<F(0)>>>>),
        Zeros(0, 2), Zeros(0, 1)).v)

OneInputBlocks == {Lag, Double, Sink}

ComponentDefinitions(name) ==
    {ComponentDefinition(Difference, name, <<SignalNames[a], SignalNames[b]>>) :
         a \in 1..Len(SignalNames), b \in 1..Len(SignalNames)}
    \cup {ComponentDefinition(block, name, <<SignalNames[a]>>) :
              block \in OneInputBlocks, a \in 1..Len(SignalNames)}

Running(locals) == [r |-> "Running", v |-> locals]
IsRunning(x) == x.r = "Running"

\* the systems whose execution is followed
Executable(system) ==
    IF Len(system.components) <= 2 THEN TRUE
    ELSE /\ \A c \in 1..2 : system.components[c].reads_input_from = <<SystemInput>>
         /\ \/ system.components[3].block.t = "Difference"
            \/ system.components[3].reads_input_from = <<SystemInput>>

InitSimulation ==
    /\ \E len \in 0..Len(SimulationNames) :
         \E defs \in [1..len -> UNION {ComponentDefinitions(SimulationNames[c]) :
                                          c \in 1..Len(SimulationNames)}] :
            /\ \A c \in 1..len : defs[c].name = SimulationNames[c]
            /\ IsOk(CompoundSystem_new(defs))
            /\ call = [fn |-> "Simulation::new", args |-> CompoundSystem_new(defs).v]
    /\ result = Pending
    /\ debug_assertions \in BOOLEAN
    /\ PageLoaded
    /\ program = <<>>
    /\ pc = 1
    /\ values = get_default_values
    /\ output = <<>>
    /\ status = "idle"

call_Simulation_new ==
    /\ call.fn = "Simulation::new"
    /\ result.r = "Pending"
    /\ result' = Simulation_new(call.args, debug_assertions)
    /\ UNCHANGED <<call, program, pc, values, output, status, debug_assertions, browser>>

\* execute, up to the head of `for i in 0..=steps`
call_Simulation_execute ==
    /\ call.fn = "Simulation::new"
    /\ IsOk(result)
    /\ Executable(call.args)
    /\ call' = [fn |-> "Simulation::execute", args |-> call.args, self |-> result.v]
    /\ result' = Running([i |-> 0, p |-> 0,
                          states |-> Repeat(F(0), result.v.state_size),
                          output |-> Repeat(F(0), steps + 1),
                          signals |-> Repeat(F(0), result.v.signals_size)])
    /\ UNCHANGED <<program, pc, values, output, status, debug_assertions, browser>>

\* signals.slice_mut(s![self.input_signal_mapping]).assign(&u)
execute_assign_input ==
    /\ call.fn = "Simulation::execute"
    /\ IsRunning(result)
    /\ result.v.p = 0
    /\ result.v.i <= steps
    /\ result' = Bind(AssignSlice(result.v.signals, call.self.input_signal_mapping,
                                  <<F(1)>>), LAMBDA su :
                 IF IsPanic(su) THEN su
                 ELSE Running([result.v EXCEPT !.signals = su.v, !.p = 1]))
    /\ UNCHANGED <<call, program, pc, values, output, status, debug_assertions, browser>>

\* one entry of `for step in &self.execution_plan`
execute_plan_step ==
    /\ call.fn = "Simulation::execute"
    /\ IsRunning(result)
    /\ result.v.p \in 1..Len(call.self.execution_plan)
    /\ result' = Bind(execute_step(call.self, call.self.execution_plan[result.v.p],
                                   result.v.signals, result.v.states), LAMBDA r :
                 IF IsPanic(r) THEN r
                 ELSE Running([result.v EXCEPT !.signals = r.v.signals,
                                               !.states = r.v.states,
                                               !.p = result.v.p + 1]))
    /\ UNCHANGED <<call, program, pc, values, output, status, debug_assertions, browser>>

\* output[i] = signals[self.output_signal_mapping], and the next i
execute_sample ==
    /\ call.fn = "Simulation::execute"
    /\ IsRunning(result)
    /\ result.v.p = Len(call.self.execution_plan) + 1
    /\ result' = IF call.self.output_signal_mapping + 1 > Len(result.v.signals)
                 THEN Panic("index out of bounds")
                 ELSE Running([result.v EXCEPT
                                  !.output[result.v.i + 1] =
                                      result.v.signals[call.self.output_signal_mapping + 1],
                                  !.i = result.v.i + 1,
                                  !.p = 0])
    /\ UNCHANGED <<call, program, pc, values, output, status, debug_assertions, browser>>

\* the loop is over: execute returns output
execute_output ==
    /\ call.fn = "Simulation::execute"
    /\ IsRunning(result)
    /\ result.v.p = 0
    /\ result.v.i > steps
    /\ result' = Ok(result.v.output)
    /\ UNCHANGED <<call, program, pc, values, output, status, debug_assertions, browser>>

NextSimulation ==
    \/ call_Simulation_new
    \/ call_Simulation_execute
    \/ execute_assign_input
    \/ execute_plan_step
    \/ execute_sample
    \/ execute_output

SpecSimulation == InitSimulation /\ [][NextSimulation]_vars

-----------------------------------------------------------------------------
(* Properties of Simulation::new and Simulation::execute, checked under    *)
(* SpecSimulation                                                          *)

Executing == call.fn = "Simulation::execute"
HasPlan == Executing \/ (call.fn = "Simulation::new" /\ IsOk(result))
Plan == IF Executing THEN call.self ELSE result.v
Components == call.args.components

\* execute has just carried out entry p - 1 of the plan without aborting
AfterPlanStep ==
    /\ Executing
    /\ IsRunning(result)
    /\ result.v.p \in 2..(Len(Plan.execution_plan) + 1)
LastStep == Plan.execution_plan[result.v.p - 1]

IsOutputStep(s) == s.step \in {"CalculateOutput", "CalculateOutputWithFeedthrough"}

\* the slots of the signal buffer that carry the output of component b (0-based)
OutputSlots(b) ==
    Plan.blocks[b + 1].output_signal_mapping.start
        .. Plan.blocks[b + 1].output_signal_mapping.end - 1

\* the slots written by the output steps of the current cycle before entry p
WrittenBefore(p) ==
    UNION {OutputSlots(Plan.execution_plan[q].system_id) :
               q \in {x \in 1..(p - 1) : IsOutputStep(Plan.execution_plan[x])}}

\* the component outputs that component b reads
ComponentsRead(b) ==
    {Components[b + 1].reads_input_from[k].i :
         k \in {x \in 1..Len(Components[b + 1].reads_input_from) :
                    Components[b + 1].reads_input_from[x].t = "ComponentOutput"}}

\* C21: whenever execute has computed the output of a block with
\* feedthrough, every component output the block reads had been written by
\* an earlier output step of the same cycle.
C21_OutputsInValidOrder ==
    (AfterPlanStep /\ LastStep.step = "CalculateOutputWithFeedthrough")
        => \A c \in ComponentsRead(LastStep.system_id) :
               OutputSlots(c) \subseteq WrittenBefore(result.v.p - 1)

\* the slot of the signal buffer that carries a size-1 signal (0-based)
Slot(signal) ==
    IF signal.t = "SystemInput" THEN Plan.input_signal_mapping.start
    ELSE Plan.blocks[signal.i + 1].output_signal_mapping.start

\* component b (0-based) is `name = a - b` with two different signals
IsDifferenceOfTwo(b) ==
    /\ Components[b + 1].block.t = "Difference"
    /\ Components[b + 1].reads_input_from[1] # Components[b + 1].reads_input_from[2]
Minuend(b) == Components[b + 1].reads_input_from[1]
Subtrahend(b) == Components[b + 1].reads_input_from[2]

\* the slots selected by the input view of component b, in view order
InputView(b) ==
    SliceIndices(Plan.blocks[b + 1].input_signal_mapping, Plan.signals_size).v

\* C22: the input view planned for `name = a - b` with a # b selects the slot
\* of a and then the slot of b, whichever of the two lies lower in the
\* buffer, and once the output step of the component has run the slot of
\* the component holds (value of a) - (value of b).
C22_DifferenceInWrittenOrder ==
    /\ HasPlan =>
         \A b \in 0..(Len(Components) - 1) :
            IsDifferenceOfTwo(b) =>
                InputView(b) = <<Slot(Minuend(b)), Slot(Subtrahend(b))>>
    /\ (AfterPlanStep /\ IsOutputStep(LastStep)
            /\ IsDifferenceOfTwo(LastStep.system_id)) =>
         result.v.signals[Slot(ComponentOutput(LastStep.system_id)) + 1]
             = FSub(result.v.signals[Slot(Minuend(LastStep.system_id)) + 1],
                    result.v.signals[Slot(Subtrahend(LastStep.system_id)) + 1])

\* a difference of two component outputs has been computed whose minuend
\* lies above its subtrahend in the buffer and carries another value
C22_Witness ==
    /\ AfterPlanStep
    /\ IsOutputStep(LastStep)
    /\ IsDifferenceOfTwo(LastStep.system_id)
    /\ Minuend(LastStep.system_id).t = "ComponentOutput"
    /\ Subtrahend(LastStep.system_id).t = "ComponentOutput"
    /\ Slot(Minuend(LastStep.system_id)) > Slot(Subtrahend(LastStep.system_id))
    /\ result.v.signals[Slot(Minuend(LastStep.system_id)) + 1]
           # result.v.signals[Slot(Subtrahend(LastStep.system_id)) + 1]

Executable_(b) == Plan.blocks[b + 1].executable
Entries(kinds, b) ==
    {p \in 1..Len(Plan.execution_plan) :
        /\ Plan.execution_plan[p].step \in kinds
        /\ Plan.execution_plan[p].system_id = b}
SomeEntryOfDNonzero(b) ==
    \E i \in 1..Executable_(b).d.rows : \E j \in 1..Executable_(b).d.cols :
        Executable_(b).d.e[i][j] # F(0)
SamePhase(p, q) == IsOutputStep(Plan.execution_plan[p]) = IsOutputStep(Plan.execution_plan[q])

\* C23: the plan holds, per component, one CalculateOutputWithFeedthrough if
\* some entry of D is nonzero, else one CalculateOutput if the block has an
\* output, else no output step; one UpdateState if the block has states; all
\* output steps precede all updates and each phase is in definition order.
C23_PlanIsOutputsThenUpdates ==
    HasPlan =>
      /\ \A p \in 1..Len(Plan.execution_plan) :
            Plan.execution_plan[p].system_id \in 0..(Len(Components) - 1)
      /\ \A b \in 0..(Len(Components) - 1) :
            /\ Cardinality(Entries({"CalculateOutputWithFeedthrough"}, b))
                   = IF SomeEntryOfDNonzero(b) THEN 1 ELSE 0
            /\ Cardinality(Entries({"CalculateOutput"}, b))
                   = IF ~SomeEntryOfDNonzero(b) /\ Executable_(b).c.rows > 0
                     THEN 1 ELSE 0
            /\ Cardinality(Entries({"UpdateState"}, b))
                   = IF Executable_(b).a.rows > 0 THEN 1 ELSE 0
      /\ \A p \in 1..Len(Plan.execution_plan) : \A q \in (p + 1)..Len(Plan.execution_plan) :
            /\ IsOutputStep(Plan.execution_plan[q]) => IsOutputStep(Plan.execution_plan[p])
            /\ SamePhase(p, q) =>
                   Plan.execution_plan[p].system_id < Plan.execution_plan[q].system_id

\* a planned system of three components with a step of each kind and one
\* block that has states but no output
C23_Witness ==
    /\ call.fn = "Simulation::new"
    /\ IsOk(result)
    /\ Len(Components) = 3
    /\ \E b \in 0..2 : Entries({"CalculateOutputWithFeedthrough"}, b) # {}
    /\ \E b \in 0..2 : Entries({"CalculateOutput"}, b) # {}
    /\ \E b \in 0..2 : /\ Executable_(b).c.rows = 0
                       /\ Entries({"UpdateState"}, b) # {}
                       /\ Entries({"CalculateOutput", "CalculateOutputWithFeedthrough"}, b) = {}

OutputMapping(b) == Plan.blocks[b + 1].output_signal_mapping
StateMapping(b) == Plan.blocks[b + 1].state_mapping

RECURSIVE SumOver(_, _)
SumOver(size(_), n) == IF n = 0 THEN 0 ELSE size(n - 1) + SumOver(size, n - 1)
OutputSizeOf(b) == Executable_(b).c.rows
StateSizeOf(b) == Executable_(b).a.rows

\* C24: slot 0 of the signal buffer is u; the output slices follow it one
\* after the other in definition order and the state slices fill the state
\* buffer in the same way, each as long as the block's output or state; the
\* buffer sizes are the sums; the sampled index signals_size - 1 lies in the
\* buffer and is the slot of the last component when that has one output.
C24_BuffersWithoutOverlap ==
    HasPlan =>
      /\ Plan.input_signal_mapping = Slice(0, 1, 1)
      /\ \A b \in 0..(Len(Components) - 1) :
            /\ OutputMapping(b).step = 1
            /\ OutputMapping(b).start = IF b = 0 THEN 1 ELSE OutputMapping(b - 1).end
            /\ OutputMapping(b).end = OutputMapping(b).start + OutputSizeOf(b)
            /\ StateMapping(b).step = 1
            /\ StateMapping(b).start = IF b = 0 THEN 0 ELSE StateMapping(b - 1).end
            /\ StateMapping(b).end = StateMapping(b).start + StateSizeOf(b)
      /\ \A b \in 0..(Len(Components) - 1) : \A c \in 0..(Len(Components) - 1) :
            b # c =>
              /\ OutputSlots(b) \cap OutputSlots(c) = {}
              /\ (StateMapping(b).start .. StateMapping(b).end - 1)
                     \cap (StateMapping(c).start .. StateMapping(c).end - 1) = {}
      /\ \A b \in 0..(Len(Components) - 1) : 0 \notin OutputSlots(b)
      /\ Plan.signals_size = 1 + SumOver(OutputSizeOf, Len(Components))
      /\ Plan.state_size = SumOver(StateSizeOf, Len(Components))
      /\ Plan.output_signal_mapping \in 0..(Plan.signals_size - 1)
      /\ (Len(Components) > 0 /\ OutputSizeOf(Len(Components) - 1) = 1) =>
            OutputSlots(Len(Components) - 1) = {Plan.output_signal_mapping}

\* a planned system of three components, two of them with a state, one of
\* them without output, the last one with one output
C24_Witness ==
    /\ call.fn = "Simulation::new"
    /\ IsOk(result)
    /\ Len(Components) = 3
    /\ Cardinality({b \in 0..2 : StateSizeOf(b) > 0}) >= 2
    /\ \E b \in 0..1 : OutputSizeOf(b) = 0
    /\ OutputSizeOf(2) = 1
    /\ Plan.signals_size = 3

\* component b subtracts a signal from itself
IsDifferenceOfOne(b) ==
    /\ Components[b + 1].block.t = "Difference"
    /\ Components[b + 1].reads_input_from[1] = Components[b + 1].reads_input_from[2]

\* every component reads only u or components defined before it, and none
\* reads a block without output
ForwardOnly ==
    \A b \in 0..(Len(Components) - 1) :
        \A k \in 1..Len(Components[b + 1].reads_input_from) :
            Components[b + 1].reads_input_from[k].t = "ComponentOutput" =>
                /\ Components[b + 1].reads_input_from[k].i < b
                /\ Components[Components[b + 1].reads_input_from[k].i + 1].block # Sink

\* C25: a forward-only system that contains `name = a - a` is planned and
\* executed without aborting, and whenever the output step of that
\* component has run its slot holds 0.
C25_DifferenceOfOneSignalIsZero ==
    (ForwardOnly /\ \E b \in 0..(Len(Components) - 1) : IsDifferenceOfOne(b)) =>
        /\ ~IsPanic(result)
        /\ (AfterPlanStep /\ IsOutputStep(LastStep)
                /\ IsDifferenceOfOne(LastStep.system_id)) =>
              result.v.signals[Slot(ComponentOutput(LastStep.system_id)) + 1] = F(0)

\* execute stands before entry p of the plan
BeforePlanStep ==
    /\ Executing
    /\ IsRunning(result)
    /\ result.v.p \in 1..Len(Plan.execution_plan)
NextStep == Plan.execution_plan[result.v.p]
StateSlots(b) == StateMapping(b).start .. (StateMapping(b).end - 1)

\* A x + B u of block b on the given buffers, entry r of the result
NextStateEntry(b, r, signals, states) ==
    FAdd(Dot(Executable_(b).b.e[r], ReadSlice(signals, Plan.blocks[b + 1].input_signal_mapping).v),
         Dot(Executable_(b).a.e[r], ReadSlice(states, StateMapping(b)).v))

UpdatePositions == {p \in 1..Len(Plan.execution_plan) : Plan.execution_plan[p].step = "UpdateState"}

\* the state buffer after the UpdateState entries at the plan positions
\* order[k..] have been carried out, or the abort
RECURSIVE RunUpdates(_, _, _, _)
RunUpdates(order, k, signals, states) ==
    IF k > Len(order) THEN Ok(states)
    ELSE Try(execute_step(Plan, Plan.execution_plan[order[k]], signals, states), LAMBDA r :
         RunUpdates(order, k + 1, r.signals, r.states))

SameOutcome(x, y) == x.r = y.r /\ (IsOk(x) => x.v = y.v)

\* C26: an entry of the plan that is carried out leaves the state buffer
\* alone if it is an output step; if it is UpdateState(b) it leaves the
\* signal buffer and the states of the other components alone and sets the
\* states of b to A x + B u of the buffers as they were before it; and at
\* the head of the update phase every order of the UpdateState entries
\* leads to the same state buffer.
C26_UpdateStateFrame ==
    [][ /\ (BeforePlanStep /\ IsRunning(result')) =>
             IF IsOutputStep(NextStep)
             THEN result'.v.states = result.v.states
             ELSE /\ result'.v.signals = result.v.signals
                  /\ \A x \in 1..Len(result.v.states) :
                        result'.v.states[x] =
                            IF x - 1 \in StateSlots(NextStep.system_id)
                            THEN NextStateEntry(NextStep.system_id,
                                                x - StateMapping(NextStep.system_id).start,
                                                result.v.signals, result.v.states)
                            ELSE result.v.states[x]
        /\ (BeforePlanStep /\ result.v.p \in UpdatePositions
                /\ \A q \in UpdatePositions : result.v.p <= q) =>
             \A perm \in Permutations(UpdatePositions) :
                SameOutcome(
                    RunUpdates([k \in 1..Cardinality(UpdatePositions) |->
                                   perm[result.v.p + k - 1]],
                               1, result.v.signals, result.v.states),
                    RunUpdates([k \in 1..Cardinality(UpdatePositions) |->
                                   result.v.p + k - 1],
                               1, result.v.signals, result.v.states))
      ]_vars

\* the second of two state updates has run in a later cycle, and both
\* blocks hold a state other than zero
C26_Witness ==
    /\ AfterPlanStep
    /\ result.v.i >= 1
    /\ LastStep.step = "UpdateState"
    /\ Cardinality(UpdatePositions) >= 2
    /\ result.v.p - 1 > CHOOSE q \in UpdatePositions : \A x \in UpdatePositions : q <= x
    /\ \A q \in UpdatePositions :
          \E x \in StateSlots(Plan.execution_plan[q].system_id) :
              result.v.states[x + 1] # F(0)

-----------------------------------------------------------------------------
(* app/src/storage.rs: uploads into window.localStorage.  A string is a    *)
(* sequence of characters.  An upload_file task is spawned by the click    *)
(* handler, waits for file.text(), and then runs to its end without        *)
(* another await: the tasks of one page interleave only at that await.     *)
(* use_local_storage(key) is taken as its documentation gives it: the      *)
(* signal reads the item stored under key (the default String when there   *)
(* is none) and its setter writes the item through.                        *)

MaxUploads == 3

LF == "\n"
CR == "\r"

\* str::lines: split at LF, a CR before the LF is dropped; a last line
\* without LF is returned as it is, and an empty string has no line
RECURSIVE lines(_)
lines(s) ==
    IF s = <<>> THEN <<>>
    ELSE IF \A k \in 1..Len(s) : s[k] # LF THEN <<s>>
    ELSE LET k == CHOOSE x \in 1..Len(s) :
                      s[x] = LF /\ \A y \in 1..(x - 1) : s[y] # LF
             line == SubSeq(s, 1, k - 1)
         IN  <<IF line # <<>> /\ line[Len(line)] = CR
               THEN SubSeq(line, 1, Len(line) - 1)
               ELSE line>> \o lines(SubSeq(s, k + 1, Len(s)))

\* the keys "files" and format!("f-{name}")
files_key == <<"f", "i", "l", "e", "s">>
content_key(name) == <<"f", "-">> \o name

\* use_local_storage::<String, FromToStringCodec>(key): the value of the signal
use_local_storage(key) ==
    IF key \in DOMAIN local_storage THEN local_storage[key] ELSE <<>>

\* s.get_item(&format!("f-{name}"))
get_file(name) ==
    IF content_key(name) \in DOMAIN local_storage
    THEN Some(local_storage[content_key(name)])
    ELSE None

get_file_list == lines(use_local_storage(files_key))

\* the files the user can choose: web_sys::File { name, text }
LocalFiles == <<
    [name |-> <<"a">>, text |-> <<"1">>],
    [name |-> <<"a">>, text |-> <<"2">>],
    [name |-> <<"b">>, text |-> <<"1">>],
    [name |-> <<"a", LF, "b">>, text |-> <<"1">>],
    [name |-> <<"a", CR>>, text |-> <<"1">>]
>>

EngineIdle ==
    /\ program = <<>>
    /\ pc = 1
    /\ values = get_default_values
    /\ output = <<>>
    /\ status = "idle"
    /\ debug_assertions = FALSE
    /\ call = [fn |-> "none", args |-> <<>>]
    /\ result = Pending

InitStorage ==
    /\ file_input = <<>>
    /\ uploads = <<>>
    /\ local_storage = <<>>
    /\ EngineIdle

engine == <<program, pc, values, output, status, debug_assertions, call, result>>

\* the user picks a file in the <input type="file"> element
choose_file ==
    /\ \E f \in 1..Len(LocalFiles) : file_input' = <<LocalFiles[f]>>
    /\ UNCHANGED <<uploads, local_storage, engine>>

\* on:click with a file chosen: spawn_local(upload_file(file)), which runs
\* up to the await of file.text()
click_upload ==
    /\ Len(file_input) > 0
    /\ Len(uploads) < MaxUploads
    /\ uploads' = Append(uploads, [file |-> file_input[1], completed |-> 0])
    /\ UNCHANGED <<file_input, local_storage, engine>>

\* file.text() of task k resolves: the rest of upload_file, then the input
\* element is cleared; `completed` numbers the tasks in the order they end
upload_file(k) ==
    /\ uploads[k].completed = 0
    /\ LET name == uploads[k].file.name
           files == lines(use_local_storage(files_key))
           pushed == IF \E x \in 1..Len(files) : files[x] = name
                     THEN files
                     ELSE Append(files, name)
       IN  local_storage' =
               (content_key(name) :> uploads[k].file.text)
                   @@ (files_key :> Join(pushed, <<LF>>))
                   @@ local_storage
    /\ uploads' = [uploads EXCEPT ![k].completed =
                      1 + Cardinality({x \in 1..Len(uploads) : uploads[x].completed > 0})]
    /\ file_input' = <<>>
    /\ UNCHANGED engine

upload_file_resumes == \E k \in 1..Len(uploads) : upload_file(k)

NextStorage ==
    \/ choose_file
    \/ click_upload
    \/ upload_file_resumes

SpecStorage == InitStorage /\ [][NextStorage]_vars

-----------------------------------------------------------------------------
(* Properties of the uploads, checked under SpecStorage                    *)

Ended == {k \in 1..Len(uploads) : uploads[k].completed > 0}
EndedWith(name) == {k \in Ended : uploads[k].file.name = name}
LastEndedWith(name) ==
    CHOOSE k \in EndedWith(name) :
        \A x \in EndedWith(name) : uploads[x].completed <= uploads[k].completed
FileNames == {LocalFiles[f].name : f \in 1..Len(LocalFiles)}
Occurrences(name) == {x \in 1..Len(get_file_list) : get_file_list[x] = name}

\* C27: whatever uploads have ended, in whatever order, the stored list
\* holds the name of each of them exactly once and get_file of a name gives
\* the text of the upload of that name that ended last; a name of which no
\* upload has ended has no content.
C27_UploadsAreListedOnceAndReadBack ==
    \A name \in FileNames :
        IF EndedWith(name) = {}
        THEN get_file(name) = None
        ELSE /\ Cardinality(Occurrences(name)) = 1
             /\ get_file(name).r = "Ok"
             /\ get_file(name).v = uploads[LastEndedWith(name)].file.text

====
